---- MODULE Spec2Model ----
(***************************************************************************)
(* Dependency-impact graph engine: the impact-analysis tool                *)
(* (tools/impact-analysis.ts), the dependency-path tool                    *)
(* (tools/dependency-path.ts), the critical-fields tool                    *)
(* (tools/critical-fields.ts) and the impact-summary tool                  *)
(* (tools/impact-summary.ts) over a graph of BusinessFunction units and    *)
(* ElementalField fields joined by HAS_OUTPUT_FIELD / HAS_INPUT_FIELD.     *)
(* The Cypher text of each query is modelled by the rows it matches.       *)
(***************************************************************************)
EXTENDS Integers, Sequences, FiniteSets, TLC

\* ------------------------------------------------------------------ bounds
NumUnits == 3
MaxConsumes == 2
MaxDepthArg == 3
MaxLimitArg == 2
NumFields == 2
MaxRun == 21
MaxRowUnits == 3
MaxPaths == 2
MaxDirDepth == 2
NumCallers == 2
MaxCalls == 2

\* ------------------------------------------------------- program constants
\* getDefaultConfig: maxLevels
DefaultMaxLevels == 10

\* LIMIT 100 of every multi-hop level query
LevelCap == 100

\* the unit names of the enumerated graphs
UnitNames == 1..NumUnits
\* every unit produces exactly one field, so NumUnits names cover the outputs
Fields == 1..NumUnits
\* a name that matches no node of the graph
NoSuchName == 0

VARIABLES
  outputField,    \* HAS_OUTPUT_FIELD: unit -> its one output field
  inputFields,    \* HAS_INPUT_FIELD: set of <<unit, field>>
  identifier,     \* impact-analysis: the name given with -b / -o
  isOutputField,  \* impact-analysis: TRUE when the name came with -o
  maxDepth,       \* the parsed --depth / --max-depth option
  source,         \* dependency-path: options.source
  target,         \* dependency-path: options.target
  pathType,       \* dependency-path: options.pathType
  limit,          \* dependency-path: the parsed --limit option
  pc,             \* position of main()
  depth,          \* loop variable of analyzeMultiHopImpact
  results,        \* rows accumulated / returned by the running tool
  queries,        \* number of queryNeo4j calls issued in this run
  tool,           \* the command-line tool this run is
  fieldStats,     \* per ElementalField: how many units produce / consume it
  minConsumers,   \* critical-fields: the parsed --min-consumers option
  sortBy,         \* critical-fields: options.sortBy
  format,         \* options.format
  topCount,       \* impact-summary: the parsed --top-count option
  includeConnectivity,  \* impact-summary: FALSE when --no-connectivity is given
  includeDistribution,  \* impact-summary: FALSE when --no-distribution is given
  includeTopFields,     \* impact-summary: FALSE when --no-top-fields is given
  settled,        \* impact-summary: how each promise of Promise.all ended
  systemStats,    \* impact-summary: what getSystemStats resolved to
  connectivityStats,  \* impact-summary: what getConnectivityStats resolved to
  fieldDistribution,  \* impact-summary: what getFieldDistribution resolved to
  report,         \* what the tool printed on stdout: <<>> or <<the report>>
  rowBusinessFunctions,  \* generatePathDescription: its argument businessFunctions
  rowFields,             \* generatePathDescription: its argument fields
  pathDescription,       \* generatePathDescription: the string it returned
  csvFilePaths,   \* uploadCsvFiles: its argument csvFilePaths
  uploadOptions,  \* uploadCsvFiles: which of its options are set
  processEnv,     \* the names of the variables set in process.env
  envFile,        \* the variables of the discovered .env file: <<>> or <<names>>
  s3Client,       \* uploadCsvFiles: <<>> or <<the configuration of the client>>
  uploadPromises, \* uploadCsvFiles: per input path, how its upload stands
  thrown,         \* the error uploadCsvFiles rejected with: <<>> or <<error>>
  dirFiles,       \* per directory, root first: the readable env files in it
  startDir,       \* discoverEnvFile: config.startDir, as its distance from the root
  maxLevels,      \* discoverEnvFile: config.maxLevels
  verbose,        \* discoverEnvFile: config.verbose
  level,          \* discoverEnvFile: the loop variable
  currentDir,     \* discoverEnvFile: the directory inspected next
  discovery,      \* discoverEnvFile: result
  globalConnection,  \* neo4j-connection.ts: the singleton, 0 for null
  connDriver,     \* per Neo4jConnection made: whether this.driver is set
  callers,        \* per caller of queryNeo4j: where its call stands
  closing         \* closeGlobalConnection awaits disconnect()

vars == <<outputField, inputFields, identifier, isOutputField, maxDepth,
          source, target, pathType, limit, pc, depth, results, queries,
          tool, fieldStats, minConsumers, sortBy, format, topCount,
          includeConnectivity, includeDistribution, includeTopFields,
          settled, systemStats, connectivityStats, fieldDistribution, report,
          rowBusinessFunctions, rowFields, pathDescription,
          csvFilePaths, uploadOptions, processEnv, envFile, s3Client,
          uploadPromises, thrown,
          dirFiles, startDir, maxLevels, verbose, level, currentDir, discovery,
          globalConnection, connDriver, callers, closing>>

graphVars == <<outputField, inputFields, fieldStats>>
optionVars == <<identifier, isOutputField, maxDepth, source, target, pathType, limit,
                tool, minConsumers, sortBy, format, topCount,
                includeConnectivity, includeDistribution, includeTopFields>>
summaryVars == <<settled, systemStats, connectivityStats, fieldDistribution, report>>
descriptionVars == <<rowBusinessFunctions, rowFields, pathDescription>>
discoverVars == <<dirFiles, startDir, maxLevels, verbose, level, currentDir, discovery>>
connectionVars == <<globalConnection, connDriver, callers, closing>>
uploadVars == <<csvFilePaths, uploadOptions, processEnv, envFile, s3Client,
                uploadPromises, thrown>>
\* the state of the library functions that are called outside the four tools
libraryVars == <<rowBusinessFunctions, rowFields, pathDescription,
                 csvFilePaths, uploadOptions, processEnv, envFile, s3Client,
                 uploadPromises, thrown,
                 dirFiles, startDir, maxLevels, verbose, level, currentDir, discovery,
                 globalConnection, connDriver, callers, closing>>

\* the BusinessFunction nodes of the graph
Units == DOMAIN outputField

\* the three promises main() of impact-summary hands to Promise.all
Promises == {"systemStats", "connectivityStats", "fieldDistribution"}

\* the variables of critical-fields and impact-summary while another tool runs
FieldToolsIdle ==
  /\ fieldStats = <<>>
  /\ minConsumers = 0 /\ sortBy = "none" /\ format = "none"
  /\ topCount = 0
  /\ includeConnectivity = FALSE /\ includeDistribution = FALSE
  /\ includeTopFields = FALSE
  /\ settled = [p \in Promises |-> [status |-> "pending", answered |-> 0]]
  /\ systemStats = <<>> /\ connectivityStats = <<>> /\ fieldDistribution = <<>>
  /\ report = <<>>

\* discoverEnvFile while it is not the call modelled
\* the singleton of neo4j-connection.ts while no call of it is modelled
ConnectionIdle ==
  globalConnection = 0 /\ connDriver = <<>> /\ callers = <<>> /\ closing = FALSE

DiscoverIdle ==
  /\ dirFiles = <<>> /\ startDir = 0 /\ maxLevels = 0 /\ verbose = FALSE
  /\ level = 0 /\ currentDir = 0 /\ discovery = <<>>

\* the library functions while one of the four tools runs
LibraryIdle ==
  /\ rowBusinessFunctions = <<>> /\ rowFields = <<>> /\ pathDescription = <<>>
  /\ csvFilePaths = <<>> /\ uploadOptions = <<>> /\ processEnv = {}
  /\ envFile = <<>> /\ s3Client = <<>> /\ uploadPromises = <<>> /\ thrown = <<>>
  /\ DiscoverIdle
  /\ ConnectionIdle

\* the variables of impact-analysis and dependency-path while another tool runs
GraphToolsIdle ==
  /\ outputField = <<>> /\ inputFields = {}
  /\ identifier = NoSuchName /\ isOutputField = FALSE
  /\ maxDepth = 0
  /\ source = NoSuchName /\ target = NoSuchName
  /\ pathType = "none"
  /\ depth = 0

\* ------------------------------------------------------------ sequences
Last(s) == s[Len(s)]

Take(s, n) == SubSeq(s, 1, IF Len(s) < n THEN Len(s) ELSE n)

Reverse(s) == [i \in 1..Len(s) |-> s[Len(s) + 1 - i]]

RECURSIVE Enumerate(_)
\* one listing of the members of a finite set
Enumerate(S) ==
  IF S = {} THEN <<>>
  ELSE LET x == CHOOSE y \in S : TRUE IN <<x>> \o Enumerate(S \ {x})

RECURSIVE Flatten(_)
Flatten(ss) == IF ss = <<>> THEN <<>> ELSE Head(ss) \o Flatten(Tail(ss))

\* A query without ORDER BY hands its matches back in an order the store
\* picks: either scan direction over the matches.
ScanOrders(matches) == {matches, Reverse(matches)}

\* --------------------------------------------------------------- the graph
\* Unit and field names carry no meaning, so graphs are taken up to renaming:
\* unit 1 produces field 1 and every next unit produces a field already
\* produced or the next unused one.  Every unit has exactly one output field
\* (ai_docs/02-businessfunction-architecture.md), any set of input fields.
CanonicalOutputs(out) ==
  /\ out[1] = 1
  /\ \A u \in UnitNames \ {1} : \E v \in 1..(u - 1) : out[u] <= out[v] + 1

Graphs ==
  {g \in [out : [UnitNames -> Fields], ins : SUBSET (UnitNames \X Fields)] :
     CanonicalOutputs(g.out) /\ Cardinality(g.ins) <= MaxConsumes}

ConsumersSwapped(f) == {u \in Units : outputField[u] = f}

Consumers(f) == {u \in Units : <<u, f>> \in inputFields}

Producers(f) == {u \in Units : outputField[u] = f}

\* ------------------------------------------------------- impact-analysis.ts
\* the units of a set in the order the store scans them
UnitList(S) ==
  [i \in 1..Cardinality(S) |->
     CHOOSE u \in S : Cardinality({v \in S : v <= u}) = i]

PrefixAll(head, tails) == [i \in DOMAIN tails |-> head \o tails[i]]

RECURSIVE Chains(_, _)
\* the matches of n chained MATCH clauses from field f, listed: unit sequences
\* <<bf1, .., bfn>> where bf1 consumes f and every next unit consumes the
\* output field of the one before it
Chains(f, n) ==
  IF n = 0 THEN << <<>> >>
  ELSE LET cs == UnitList(Consumers(f)) IN
       Flatten([k \in DOMAIN cs |->
                  PrefixAll(<<cs[k]>>, Chains(outputField[cs[k]], n - 1))])

SourceMatchesUnfiltered(id, isField) ==
  LET us == UnitList(Units) IN [k \in DOMAIN us |-> <<us[k], outputField[us[k]]>>]

\* the <<source_bf, start_field>> pairs the first MATCH clauses bind
SourceMatches(id, isField) ==
  IF isField
    THEN LET ps == UnitList(Producers(id)) IN [k \in DOMAIN ps |-> <<ps[k], id>>]
    ELSE IF id \in Units THEN << <<id, outputField[id]>> >> ELSE <<>>

\* the bindings <<source_bf, start_field, bf1, .., final_bf>> of a query whose
\* pattern has n consuming units after the start field
Bindings(id, isField, n) ==
  LET sm == SourceMatches(id, isField) IN
  Flatten([k \in DOMAIN sm |-> PrefixAll(sm[k], Chains(sm[k][2], n))])

ImpactRow(b, tag) ==
  [sourceBusinessFunction   |-> b[1],
   sourceOutputField        |-> outputField[b[1]],
   affectedBusinessFunction |-> Last(b),
   affectedOutputField      |-> outputField[Last(b)],
   impactDepth              |-> tag,
   pathFields               |-> <<b[2]>> \o [i \in 1..(Len(b) - 3) |-> outputField[b[i + 2]]]]

Rows(order, tag) == [i \in 1..Len(order) |-> ImpactRow(order[i], tag)]

DepthRejectedBelowZero(d) == d < 0

\* main, lines 241-245: isNaN(depth) || depth < 1
DepthRejected(d) == d < 1

\* main, line 259: depth === 1 goes to analyzeDirectImpact
UsesDirect(d) == d = 1

LoopStopsEarly(d, maxD) == d < maxD

\* analyzeMultiHopImpact, line 68: depth <= maxDepth
LoopContinues(d, maxD) == d <= maxD

\* iteration `depth` chains `depth` intermediate units before final_bf
LevelPattern(d) == d + 1

LevelTagOfLoop(d) == d

\* ${depth + 1} as impactDepth
LevelTag(d) == d + 1

ImpactInit ==
  /\ LibraryIdle
  /\ \E g \in Graphs : outputField = g.out /\ inputFields = g.ins
  /\ identifier \in {NoSuchName} \cup Units
  /\ isOutputField \in BOOLEAN
  /\ maxDepth \in 0..MaxDepthArg
  /\ source = NoSuchName /\ target = NoSuchName
  /\ pathType = "none" /\ limit = 0
  /\ tool = "impact-analysis"
  /\ FieldToolsIdle
  /\ pc = "validate"
  /\ depth = 0
  /\ results = <<>>
  /\ queries = 0

ImpactValidate ==
  /\ pc = "validate"
  /\ pc' = IF DepthRejected(maxDepth) THEN "rejected"
           ELSE IF UsesDirect(maxDepth) THEN "direct" ELSE "multihop"
  /\ depth' = IF DepthRejected(maxDepth) \/ UsesDirect(maxDepth) THEN depth ELSE 1
  /\ UNCHANGED <<libraryVars, graphVars, optionVars, summaryVars, results, queries>>

AnalyzeDirectImpact ==
  /\ pc = "direct"
  /\ \E order \in ScanOrders(Bindings(identifier, isOutputField, 1)) :
       results' = Rows(order, 1)
  /\ queries' = queries + 1
  /\ pc' = "done"
  /\ UNCHANGED <<libraryVars, graphVars, optionVars, summaryVars, depth>>

MultiHopLevel ==
  /\ pc = "multihop"
  /\ LoopContinues(depth, maxDepth)
  /\ \E order \in ScanOrders(Bindings(identifier, isOutputField, LevelPattern(depth))) :
       results' = results \o Take(Rows(order, LevelTag(depth)), LevelCap)
  /\ queries' = queries + 1
  /\ depth' = depth + 1
  /\ UNCHANGED <<libraryVars, graphVars, optionVars, summaryVars, pc>>

MultiHopReturn ==
  /\ pc = "multihop"
  /\ ~LoopContinues(depth, maxDepth)
  /\ pc' = "done"
  /\ UNCHANGED <<libraryVars, graphVars, optionVars, summaryVars, depth, results, queries>>

ImpactQueryFailsKeepsRows ==
  /\ \/ pc = "direct"
     \/ pc = "multihop" /\ LoopContinues(depth, maxDepth)
  /\ queries' = queries + 1
  /\ results' = results
  /\ pc' = "failed"
  /\ UNCHANGED <<libraryVars, graphVars, optionVars, summaryVars, depth>>

\* queryNeo4j throws: the catch block of main reports and exits 1
ImpactQueryFails ==
  /\ \/ pc = "direct"
     \/ pc = "multihop" /\ LoopContinues(depth, maxDepth)
  /\ queries' = queries + 1
  /\ results' = <<>>
  /\ pc' = "failed"
  /\ UNCHANGED <<libraryVars, graphVars, optionVars, summaryVars, depth>>

ImpactNext ==
  \/ ImpactValidate
  \/ AnalyzeDirectImpact
  \/ MultiHopLevel
  \/ MultiHopReturn
  \/ ImpactQueryFails

SpecImpact == ImpactInit /\ [][ImpactNext]_vars

\* a highly-connected field: unit 1 produces field 1, n units consume it and
\* produce field 2, and one last unit consumes field 2
FanOutInit ==
  /\ LibraryIdle
  /\ \E n \in {LevelCap, LevelCap + 1} :
       /\ outputField = [u \in 1..(n + 2) |->
                           IF u = 1 THEN 1 ELSE IF u = n + 2 THEN 3 ELSE 2]
       /\ inputFields = {<<u, 1>> : u \in 2..(n + 1)} \cup {<<n + 2, 2>>}
  /\ identifier = 1
  /\ isOutputField \in BOOLEAN
  /\ maxDepth \in 1..2
  /\ source = NoSuchName /\ target = NoSuchName
  /\ pathType = "none" /\ limit = 0
  /\ tool = "impact-analysis"
  /\ FieldToolsIdle
  /\ pc = "validate"
  /\ depth = 0
  /\ results = <<>>
  /\ queries = 0

\* impact-analysis over the enumerated graphs and the highly-connected field
SpecImpactFanOut == (ImpactInit \/ FanOutInit) /\ [][ImpactNext]_vars

\* ------------------------------------------------------ dependency-path.ts
\* the relationships of type HAS_OUTPUT_FIELD / HAS_INPUT_FIELD
Relationships ==
  {<<u, "HAS_OUTPUT_FIELD", outputField[u]>> : u \in Units} \cup
  {<<e[1], "HAS_INPUT_FIELD", e[2]>> : e \in inputFields}

UnitHopsDirected(u, used) ==
  {h \in (Relationships \ used) \X (Relationships \ used) :
     /\ h[1][1] = u /\ h[2][3] = h[1][3] /\ h[1] # h[2]
     /\ h[1][2] = "HAS_OUTPUT_FIELD" /\ h[2][2] = "HAS_INPUT_FIELD"}

\* one unit-hop out of unit u: a relationship from u to a field and another
\* relationship from that field to a unit, in either direction
UnitHops(u, used) ==
  {h \in (Relationships \ used) \X (Relationships \ used) :
     h[1][1] = u /\ h[2][3] = h[1][3] /\ h[1] # h[2]}

RECURSIVE TrailsFrom(_, _, _, _)
\* the relationship sequences a variable-length pattern matches from unit u
\* to unit t in at most n more unit-hops: no relationship is used twice
TrailsFrom(u, t, used, n) ==
  (IF u = t /\ used # {} THEN {<<>>} ELSE {}) \cup
  (IF n = 0 THEN {}
   ELSE UNION {{h \o rest : rest \in TrailsFrom(h[2][1], t, used \cup {h[1], h[2]}, n - 1)} :
                 h \in UnitHops(u, used)})

\* (source)-[*1..maxDepth * 2]-(target) with every relationship of the two types
MatchedPaths(src, tgt, maxD) ==
  IF src \in Units /\ tgt \in Units THEN TrailsFrom(src, tgt, {}, maxD) ELSE {}

PathLengthInRelationships(p) == Len(p)

\* length(path) / 2 as pathLength
PathLength(p) == Len(p) \div 2

\* [n in nodes(path) WHERE n:BusinessFunction | n.name]
PathUnits(p) == <<p[1][1]>> \o [i \in 1..(Len(p) \div 2) |-> p[2 * i][1]]

\* [n in nodes(path) WHERE n:ElementalField | n.name]
PathFields(p) == [i \in 1..(Len(p) \div 2) |-> p[2 * i][3]]

\* a missing field read without the length test: `--[${undefined}]-->`
GeneratePathDescriptionUnchecked(businessFunctions, fields) ==
  IF Len(businessFunctions) = 0 THEN <<>>
  ELSE [k \in 1..(2 * Len(businessFunctions) - 1) |->
          IF k % 2 = 1 THEN <<"unit", businessFunctions[(k + 1) \div 2]>>
          ELSE IF k \div 2 <= Len(fields) THEN <<"--[]-->", fields[k \div 2]>>
          ELSE <<"--[]-->", <<"u", "n", "d", "e", "f", "i", "n", "e", "d">>>>]

\* generatePathDescription: the parts later joined by a blank
GeneratePathDescription(businessFunctions, fields) ==
  IF Len(businessFunctions) = 0 THEN <<>>
  ELSE [k \in 1..(2 * Len(businessFunctions) - 1) |->
          IF k % 2 = 1 THEN <<"unit", businessFunctions[(k + 1) \div 2]>>
          ELSE IF k \div 2 <= Len(fields) THEN <<"--[]-->", fields[k \div 2]>>
          ELSE <<"-->">>]

\* the text of one part; a text is the sequence of its characters
PartText(part) ==
  CASE part[1] = "unit"    -> part[2]
    [] part[1] = "--[]-->" -> <<"-", "-", "[">> \o part[2] \o <<"]", "-", "-", ">">>
    [] part[1] = "-->"     -> <<"-", "-", ">">>

RECURSIVE Join(_, _)
\* parts.join(separator)
Join(texts, separator) ==
  IF texts = <<>> THEN <<>>
  ELSE IF Len(texts) = 1 THEN texts[1]
  ELSE texts[1] \o separator \o Join(Tail(texts), separator)

\* line 127: return parts.join(' ')
PathDescriptionText(businessFunctions, fields) ==
  LET parts == GeneratePathDescription(businessFunctions, fields)
  IN Join([k \in DOMAIN parts |-> PartText(parts[k])], <<" ">>)

PathRow(p) ==
  [sourceBusinessFunction |-> PathUnits(p)[1],
   targetBusinessFunction |-> Last(PathUnits(p)),
   pathLength             |-> PathLength(p),
   businessFunctions      |-> PathUnits(p),
   fields                 |-> PathFields(p),
   pathDescription        |-> GeneratePathDescription(PathUnits(p), PathFields(p))]

PathRows(order) == [i \in 1..Len(order) |-> PathRow(order[i])]

RECURSIVE OfLength(_, _)
OfLength(rows, n) ==
  IF rows = <<>> THEN <<>>
  ELSE (IF Head(rows).pathLength = n THEN <<Head(rows)>> ELSE <<>>) \o OfLength(Tail(rows), n)

RECURSIVE OrderAsc(_, _, _)
\* ORDER BY pathLength ASC: rows of equal length keep the order they came in
OrderAsc(rows, n, maxN) ==
  IF n > maxN THEN <<>> ELSE OfLength(rows, n) \o OrderAsc(rows, n + 1, maxN)

RECURSIVE OrderDesc(_, _)
\* ORDER BY pathLength DESC
OrderDesc(rows, n) ==
  IF n < 1 THEN <<>> ELSE OfLength(rows, n) \o OrderDesc(rows, n - 1)

ShortestOfFlipped(paths) ==
  {p \in paths : \A q \in paths : Len(p) >= Len(q)}

\* shortestPath(..): the matched paths with the fewest relationships
ShortestOf(paths) ==
  {p \in paths : \A q \in paths : Len(p) <= Len(q)}

WithinLengthUndoubled(p, maxD) == Len(p) <= maxD

\* case 'all', line 63: AND length(path) <= maxDepth * 2
WithinLength(p, maxD) == Len(p) <= maxD * 2

\* the row lists the query of a strategy can return
QueryResults(type, src, tgt, maxD, lim) ==
  LET matched == MatchedPaths(src, tgt, maxD) IN
  CASE type = "shortest" ->
         IF matched = {} THEN {<<>>}
         ELSE {Take(<<PathRow(p)>>, lim) : p \in ShortestOf(matched)}
    [] type = "all" ->
         {Take(OrderAsc(PathRows(order), 1, maxD), lim) :
            order \in ScanOrders(Enumerate({p \in matched : WithinLength(p, maxD)}))}
    [] type = "longest" ->
         {Take(OrderDesc(PathRows(order), maxD), lim) : order \in ScanOrders(Enumerate(matched))}

PathTypes == {"shortest", "all", "longest"}

\* main, lines 264-289: the checks that end in process.exit(1)
PathOptionsRejected ==
  \/ maxDepth < 1
  \/ limit < 1
  \/ pathType \notin PathTypes
  \/ source = target

PathInit ==
  /\ LibraryIdle
  /\ \E g \in Graphs : outputField = g.out /\ inputFields = g.ins
  /\ source \in {NoSuchName} \cup Units
  /\ target \in {NoSuchName} \cup Units
  /\ maxDepth \in 0..MaxDepthArg
  /\ limit \in 0..MaxLimitArg
  /\ pathType \in PathTypes \cup {"other"}
  /\ identifier = NoSuchName /\ isOutputField = FALSE
  /\ tool = "dependency-path"
  /\ FieldToolsIdle
  /\ pc = "validate"
  /\ depth = 0
  /\ results = <<>>
  /\ queries = 0

PathValidate ==
  /\ pc = "validate"
  /\ pc' = IF PathOptionsRejected THEN "rejected" ELSE "query"
  /\ UNCHANGED <<libraryVars, graphVars, optionVars, summaryVars, depth, results, queries>>

FindDependencyPaths ==
  /\ pc = "query"
  /\ results' \in QueryResults(pathType, source, target, maxDepth, limit)
  /\ queries' = queries + 1
  /\ pc' = "done"
  /\ UNCHANGED <<libraryVars, graphVars, optionVars, summaryVars, depth>>

\* queryNeo4j throws: the catch block of main reports and exits 1
PathQueryFails ==
  /\ pc = "query"
  /\ queries' = queries + 1
  /\ results' = <<>>
  /\ pc' = "failed"
  /\ UNCHANGED <<libraryVars, graphVars, optionVars, summaryVars, depth>>

PathNext ==
  \/ PathValidate
  \/ FindDependencyPaths
  \/ PathQueryFails

SpecPath == PathInit /\ [][PathNext]_vars

\* ------------------------------------------------------ critical-fields.ts
\* A field is known here by its counts: fieldStats[f].producers is
\* size(producers) and fieldStats[f].consumers is size(consumers) of field f.
FieldNames == DOMAIN fieldStats

ProducerCounts == 0..MaxConsumes
ConsumerCounts == 0..(MaxConsumes + 1)

Populations == [1..NumFields -> [producers : ProducerCounts, consumers : ConsumerCounts]]

RECURSIVE GCD(_, _)
GCD(a, b) == IF b = 0 THEN a ELSE GCD(b, a % b)

\* the number a / b, b > 0, as the fraction in lowest terms
Quotient(a, b) == LET g == GCD(a, b) IN <<a \div g, b \div g>>

FracGreater(x, y) == x[1] * y[2] > y[1] * x[2]

MaxOf(a, b) == IF a > b THEN a ELSE b

\* x || y on numbers: 0 is falsy
OrElse(x, y) == IF x[1] = 0 THEN y ELSE x

CriticalEligibleStrict(f, minC) ==
  fieldStats[f].producers > 0 /\ fieldStats[f].consumers > minC

\* line 41: WHERE size(producers) > 0 AND size(consumers) >= $minConsumers
CriticalEligible(f, minC) ==
  fieldStats[f].producers > 0 /\ fieldStats[f].consumers >= minC

\* lines 45-49, the RETURN clause of the ranking query
RankedRow(f) ==
  [fieldName        |-> f,
   producerCount    |-> fieldStats[f].producers,
   consumerCount    |-> fieldStats[f].consumers,
   impactRatio      |-> Quotient(fieldStats[f].consumers, fieldStats[f].producers),
   totalConnections |-> fieldStats[f].producers + fieldStats[f].consumers]

\* lines 55-61, results.map
FieldImpactData(row) ==
  [fieldName        |-> row.fieldName,
   producerCount    |-> row.producerCount,
   consumerCount    |-> row.consumerCount,
   impactRatio      |-> OrElse(row.impactRatio,
                               Quotient(row.consumerCount, MaxOf(row.producerCount, 1))),
   totalConnections |-> IF row.totalConnections # 0 THEN row.totalConnections
                        ELSE row.producerCount + row.consumerCount]

GetSortClauseByName(by) ==
  CASE by = "consumers" -> "producerCount"
    [] by = "producers" -> "consumerCount"
    [] by = "ratio"     -> "impactRatio"
    [] OTHER            -> "consumerCount"

\* getSortClause
GetSortClause(by) ==
  CASE by = "consumers" -> "consumerCount"
    [] by = "producers" -> "producerCount"
    [] by = "ratio"     -> "impactRatio"
    [] OTHER            -> "consumerCount"

\* the value a row is ordered by, as a fraction
SortKey(row, clause) ==
  IF clause = "impactRatio" THEN row.impactRatio ELSE <<row[clause], 1>>

Without(s, i) == SubSeq(s, 1, i - 1) \o SubSeq(s, i + 1, Len(s))

RECURSIVE OrderByDesc(_, _)
\* ORDER BY <clause> DESC: rows of equal key keep the order they came in
OrderByDesc(rows, clause) ==
  IF rows = <<>> THEN <<>>
  ELSE LET i == CHOOSE k \in DOMAIN rows :
                  /\ \A j \in DOMAIN rows :
                       ~FracGreater(SortKey(rows[j], clause), SortKey(rows[k], clause))
                  /\ \A j \in 1..(k - 1) :
                       FracGreater(SortKey(rows[k], clause), SortKey(rows[j], clause))
       IN <<rows[i]>> \o OrderByDesc(Without(rows, i), clause)

RECURSIVE Keep(_, _)
\* the members of a list that are in a set, in the order of the list
Keep(s, S) ==
  IF s = <<>> THEN <<>>
  ELSE (IF Head(s) \in S THEN <<Head(s)>> ELSE <<>>) \o Keep(Tail(s), S)

\* analyzeCriticalFields: the row lists the ranking query can return, mapped
RankedFields(minC, lim, by) ==
  {LET rows == [i \in DOMAIN order |-> RankedRow(order[i])]
       cut  == Take(OrderByDesc(rows, GetSortClause(by)), lim)
   IN [i \in DOMAIN cut |-> FieldImpactData(cut[i])] :
     order \in ScanOrders(Keep([f \in FieldNames |-> f],
                               {f \in FieldNames : CriticalEligible(f, minC)}))}

EligibleWithProducer == {f \in FieldNames : fieldStats[f].producers > 0}

\* lines 83-84: the fields the distribution queries aggregate over
Eligible == {f \in FieldNames : fieldStats[f].producers > 0 /\ fieldStats[f].consumers > 0}

\* sum(CASE WHEN <test> THEN 1 ELSE 0 END) over the eligible fields
CountWhere(Test(_)) == Cardinality({f \in Eligible : Test(fieldStats[f].consumers)})

\* getFieldDistributionStats, lines 86-89
LowImpact(c) == c < 10

MediumImpactAbove(c) == c > 10 /\ c < 100
MediumImpact(c) == c >= 10 /\ c < 100

HighImpact(c) == c >= 100 /\ c < 1000
CriticalImpact(c) == c >= 1000

GetFieldDistributionStats ==
  [lowImpact      |-> CountWhere(LowImpact),
   mediumImpact   |-> CountWhere(MediumImpact),
   highImpact     |-> CountWhere(HighImpact),
   criticalImpact |-> CountWhere(CriticalImpact)]

CriticalFieldsRiskLoose(c) ==
  IF c >= 1000 THEN "CRITICAL"
  ELSE IF c >= 500 THEN "HIGH"
  ELSE IF c >= 100 THEN "MEDIUM"
  ELSE "LOW"

\* formatOutput, lines 159-162
CriticalFieldsRisk(c) ==
  IF c > 1000 THEN "CRITICAL"
  ELSE IF c > 500 THEN "HIGH"
  ELSE IF c > 100 THEN "MEDIUM"
  ELSE "LOW"

RECURSIVE SumConsumerCounts(_)
\* line 108: fields.reduce((sum, f) => sum + f.consumerCount, 0)
SumConsumerCounts(fields) ==
  IF fields = <<>> THEN 0
  ELSE Head(fields).consumerCount + SumConsumerCounts(Tail(fields))

\* generateSummary and the 'summary' case of formatOutput: the top 10 fields,
\* the average (0 / 0 is NaN, written <<>>), the distribution and the risk of
\* the first five
CriticalFieldsSummary(fields, distributionStats) ==
  [totalFields       |-> Len(fields),
   highImpactFields  |-> Take(fields, 10),
   averageConsumers  |-> IF Len(fields) = 0 THEN <<>>
                         ELSE Quotient(SumConsumerCounts(fields), Len(fields)),
   distributionStats |-> distributionStats,
   risks             |-> [i \in DOMAIN Take(fields, 5) |->
                            CriticalFieldsRisk(fields[i].consumerCount)]]

CriticalFormats == {"json", "csv", "summary"}
SortKeys == {"consumers", "producers", "ratio"}

\* main, lines 193-213: the checks that end in process.exit(1)
CriticalOptionsRejected ==
  \/ minConsumers < 0
  \/ limit < 1
  \/ sortBy \notin SortKeys
  \/ format \notin CriticalFormats

\* main before it reads its options
CriticalStart ==
  /\ LibraryIdle
  /\ tool = "critical-fields"
  /\ GraphToolsIdle
  /\ topCount = 0
  /\ includeConnectivity = FALSE /\ includeDistribution = FALSE
  /\ includeTopFields = FALSE
  /\ settled = [p \in Promises |-> [status |-> "pending", answered |-> 0]]
  /\ systemStats = <<>> /\ connectivityStats = <<>> /\ fieldDistribution = <<>>
  /\ report = <<>>
  /\ pc = "validate"
  /\ results = <<>>
  /\ queries = 0

CriticalInit ==
  /\ fieldStats \in Populations
  /\ minConsumers \in (-1)..MaxConsumes
  /\ limit \in 0..MaxLimitArg
  /\ sortBy \in SortKeys \cup {"other"}
  /\ format \in {"json", "summary", "other"}
  /\ CriticalStart

CriticalValidate ==
  /\ pc = "validate"
  /\ pc' = IF CriticalOptionsRejected THEN "rejected" ELSE "rank"
  /\ UNCHANGED <<libraryVars, graphVars, optionVars, summaryVars, depth, results, queries>>

\* line 220, then formatOutput for the formats that need no summary
AnalyzeCriticalFields ==
  /\ pc = "rank"
  /\ results' \in RankedFields(minConsumers, limit, sortBy)
  /\ queries' = queries + 1
  /\ IF format = "summary"
       THEN pc' = "distribution" /\ report' = report
       ELSE pc' = "done" /\ report' = <<[fields |-> results']>>
  /\ UNCHANGED <<libraryVars, graphVars, optionVars, depth, settled, systemStats,
                 connectivityStats, fieldDistribution>>

\* lines 224-230
SummarizeCriticalFields ==
  /\ pc = "distribution"
  /\ queries' = queries + 1
  /\ report' = <<[fields  |-> results,
                  summary |-> CriticalFieldsSummary(results, GetFieldDistributionStats)]>>
  /\ pc' = "done"
  /\ UNCHANGED <<libraryVars, graphVars, optionVars, depth, results, settled, systemStats,
                 connectivityStats, fieldDistribution>>

\* queryNeo4j throws: the catch block of main reports and exits 1
CriticalQueryFails ==
  /\ pc \in {"rank", "distribution"}
  /\ queries' = queries + 1
  /\ pc' = "failed"
  /\ UNCHANGED <<libraryVars, graphVars, optionVars, summaryVars, depth, results>>

CriticalNext ==
  \/ CriticalValidate
  \/ AnalyzeCriticalFields
  \/ SummarizeCriticalFields
  \/ CriticalQueryFails

SpecCritical == CriticalInit /\ [][CriticalNext]_vars

\* ------------------------------------------------------- impact-summary.ts
RECURSIVE SumTo(_, _)
\* the sum of one count over the fields 1..n
SumTo(n, count) ==
  IF n = 0 THEN 0 ELSE fieldStats[n][count] + SumTo(n - 1, count)

Total(count) == SumTo(Len(fieldStats), count)

\* every unit has exactly one HAS_OUTPUT_FIELD relationship, so the units are
\* as many as the producer relationships
TotalBusinessFunctions == Total("producers")

\* getSystemStats, lines 53-75 (of the averages and maxima avgInputFields
\* only: avg() over no unit is null, written <<>>)
GetSystemStats ==
  [totalBusinessFunctions |-> TotalBusinessFunctions,
   totalFields            |-> Len(fieldStats),
   totalRelationships     |-> Total("producers") + Total("consumers"),
   avgInputFields         |-> IF TotalBusinessFunctions = 0 THEN <<>>
                              ELSE <<Quotient(Total("consumers"), TotalBusinessFunctions)>>]

\* getSystemStats, lines 79-87: the catch block
SystemStatsFallback ==
  [totalBusinessFunctions |-> 0,
   totalFields            |-> 0,
   totalRelationships     |-> 0,
   avgInputFields         |-> <<Quotient(0, 1)>>]

\* getConnectivityStats, lines 110-118 (without the highlyConnectedBFs list)
GetConnectivityStats ==
  [connectedComponents       |-> 1,
   largestComponentSize      |-> TotalBusinessFunctions,
   isolatedBusinessFunctions |-> 0]

\* getConnectivityStats, lines 121-126, and main, lines 436-441
ConnectivityStatsFallback ==
  [connectedComponents       |-> 0,
   largestComponentSize      |-> 0,
   isolatedBusinessFunctions |-> 0]

\* the eligible fields in the order the store scans them
EligibleList == Keep([f \in FieldNames |-> f], Eligible)

TopRow(f) ==
  [field     |-> f,
   consumers |-> fieldStats[f].consumers,
   producers |-> fieldStats[f].producers]

\* lines 133-158: ORDER BY <clause> DESC LIMIT $topCount
TopFields(order, clause, n) ==
  Take(OrderByDesc([i \in DOMAIN order |-> TopRow(order[i])], clause), n)

\* getFieldDistribution, lines 169-174
Range1to10(c) == c <= 10
Range11to50(c) == c > 10 /\ c <= 50
Range51to100(c) == c > 50 /\ c <= 100
Range101to500(c) == c > 100 /\ c <= 500
Range501to1000(c) == c > 500 /\ c <= 1000
Range1000plus(c) == c > 1000

\* (count / total) * 100, as a fraction
Percentage(count, total) == Quotient(count * 100, total)

Band(range, count, total) ==
  [range |-> range, count |-> count, percentage |-> Percentage(count, total)]

\* lines 178-189
ByConsumerCount ==
  LET total == IF Cardinality(Eligible) = 0 THEN 1 ELSE Cardinality(Eligible)
  IN <<Band("1-10", CountWhere(Range1to10), total),
       Band("11-50", CountWhere(Range11to50), total),
       Band("51-100", CountWhere(Range51to100), total),
       Band("101-500", CountWhere(Range101to500), total),
       Band("501-1000", CountWhere(Range501to1000), total),
       Band("1000+", CountWhere(Range1000plus), total)>>

\* lines 190-195
ByProducerCount ==
  <<Band("1", 0, 1), Band("2-3", 0, 1), Band("4-5", 0, 1), Band("6+", 0, 1)>>

\* getFieldDistribution: the values it can resolve to when no query throws
GetFieldDistribution(n) ==
  {[byConsumerCount   |-> ByConsumerCount,
    byProducerCount   |-> ByProducerCount,
    topConsumerFields |-> TopFields(o1, "consumers", n),
    topProducerFields |-> TopFields(o2, "producers", n)] :
     o1 \in ScanOrders(EligibleList), o2 \in ScanOrders(EligibleList)}

\* getFieldDistribution, lines 201-206, and main, lines 444-449
FieldDistributionFallback ==
  [byConsumerCount   |-> <<>>,
   byProducerCount   |-> <<>>,
   topConsumerFields |-> <<>>,
   topProducerFields |-> <<>>]

FieldRiskLoose(consumers) ==
  IF consumers >= 1000 THEN "CRITICAL"
  ELSE IF consumers >= 500 THEN "HIGH"
  ELSE IF consumers >= 100 THEN "MEDIUM"
  ELSE "LOW"

\* generateRiskAssessment, lines 212-228
FieldRisk(consumers) ==
  IF consumers > 1000 THEN "CRITICAL"
  ELSE IF consumers > 500 THEN "HIGH"
  ELSE IF consumers > 100 THEN "MEDIUM"
  ELSE "LOW"

SystemFragilityLoose(highRiskCount) ==
  IF highRiskCount >= 20 THEN "CRITICAL"
  ELSE IF highRiskCount >= 10 THEN "HIGH"
  ELSE IF highRiskCount >= 5 THEN "MEDIUM"
  ELSE "LOW"

\* generateRiskAssessment, lines 239-242
SystemFragility(highRiskCount) ==
  IF highRiskCount > 20 THEN "CRITICAL"
  ELSE IF highRiskCount > 10 THEN "HIGH"
  ELSE IF highRiskCount > 5 THEN "MEDIUM"
  ELSE "LOW"

RecommendedActionsAppended(fragility) ==
  LET base == <<"impact analysis tools", "change approval", "automated testing",
                "document business logic", "microservice boundaries">>
  IN IF fragility = "CRITICAL"
       THEN base \o <<"emergency rollback", "architecture redesign">>
       ELSE base

\* lines 244-255
RecommendedActions(fragility) ==
  LET base == <<"impact analysis tools", "change approval", "automated testing",
                "document business logic", "microservice boundaries">>
  IN IF fragility = "CRITICAL"
       THEN <<"emergency rollback">> \o base \o <<"architecture redesign">>
       ELSE base

GenerateRiskAssessment(distribution) ==
  LET criticalFields ==
        [i \in DOMAIN distribution.topConsumerFields |->
           [field |-> distribution.topConsumerFields[i].field,
            risk  |-> FieldRisk(distribution.topConsumerFields[i].consumers)]]
      highRiskCount ==
        Cardinality({i \in DOMAIN criticalFields :
                       criticalFields[i].risk \in {"CRITICAL", "HIGH"}})
  IN [criticalFields     |-> criticalFields,
      systemFragility    |-> SystemFragility(highRiskCount),
      recommendedActions |-> RecommendedActions(SystemFragility(highRiskCount))]

SummaryFormats == {"json", "markdown", "text"}

\* main, lines 419-428: the checks that end in process.exit(1)
SummaryOptionsRejected == topCount < 1 \/ format \notin SummaryFormats

\* the queryNeo4j calls of each of the three functions
QueryCount(p) ==
  CASE p = "systemStats"       -> 4
    [] p = "connectivityStats" -> 2
    [] p = "fieldDistribution" -> 3

\* lines 410-416: program.opts() holds what --no-connectivity,
\* --no-distribution and --no-top-fields set under the keys connectivity,
\* distribution and topFields; the keys includeConnectivity,
\* includeDistribution and includeTopFields that main reads are never set,
\* whatever the flag: undefined, written <<>>
OptionsInclude(flag) == <<>>

\* value !== false
NotFalse(value) == value # <<FALSE>>

\* main, lines 436 and 442: the functions main() calls at all
Started(p) ==
  CASE p = "systemStats"       -> TRUE
    [] p = "connectivityStats" -> NotFalse(OptionsInclude(includeConnectivity))
    [] p = "fieldDistribution" -> /\ NotFalse(OptionsInclude(includeDistribution))
                                  /\ NotFalse(OptionsInclude(includeTopFields))

Pending == [status |-> "pending", answered |-> 0]

\* a run of n fields that one unit produces and c units consume
Run(c, n) == [i \in 1..n |-> [producers |-> 1, consumers |-> c]]

\* consumer counts on either side of every threshold of the two tools
CountEdges == {0, 1, 9, 10, 11, 50, 51, 99, 100, 101, 500, 501, 999, 1000, 1001}

\* numbers of fields on either side of every fragility threshold
RunLengths == {0, 1, 5, 6, 10, 11, 20, MaxRun}

\* one more field: none, one without producer, or one of any count
RunTails ==
  {<<>>, <<[producers |-> 0, consumers |-> 5]>>} \cup
  {<<[producers |-> 1, consumers |-> c]>> : c \in CountEdges}

\* populations of up to two fields with counts around every band edge
BandPopulations ==
  {Run(c, 1) \o tail : c \in CountEdges, tail \in RunTails}

\* populations with a run of HIGH or CRITICAL fields and one more field
FragilityPopulations ==
  {Run(c, n) \o tail : c \in {501, 1001}, n \in RunLengths,
                       tail \in {<<>>, Run(100, 1), Run(500, 1), Run(1000, 1), Run(1001, 1)}}

\* values of --top-count on either side of every fragility threshold
TopCounts == {1, 5, 6, 10, 11, 20, MaxRun}

\* the options of a run with every part of the report included
AllIncluded ==
  /\ includeConnectivity = TRUE
  /\ includeDistribution = TRUE
  /\ includeTopFields = TRUE
  /\ format = "json"

SummaryInit ==
  /\ LibraryIdle
  /\ \/ /\ fieldStats \in BandPopulations \cup FragilityPopulations
        /\ topCount = MaxRun + 1
        /\ AllIncluded
     \/ /\ fieldStats \in {<<>>, Run(MaxConsumes, 1)}
        /\ topCount \in 0..MaxLimitArg
        /\ includeConnectivity \in BOOLEAN
        /\ includeDistribution \in BOOLEAN
        /\ includeTopFields \in BOOLEAN
        /\ format \in {"json", "markdown", "other"}
     \/ /\ fieldStats \in {Run(501, MaxRun), Run(1001, MaxRun)}
        /\ topCount \in TopCounts
        /\ includeConnectivity = TRUE
        /\ includeDistribution \in BOOLEAN
        /\ includeTopFields \in BOOLEAN
        /\ format = "json"
  /\ tool = "impact-summary"
  /\ GraphToolsIdle
  /\ minConsumers = 0 /\ sortBy = "none" /\ limit = 0
  /\ settled = [p \in Promises |-> Pending]
  /\ systemStats = <<>> /\ connectivityStats = <<>> /\ fieldDistribution = <<>>
  /\ report = <<>>
  /\ pc = "validate"
  /\ results = <<>>
  /\ queries = 0

\* main up to Promise.all: every function that is called issues its first
\* query; a part that is left out resolves to its placeholder at once
SummaryValidate ==
  /\ pc = "validate"
  /\ IF SummaryOptionsRejected
       THEN /\ pc' = "rejected"
            /\ UNCHANGED <<summaryVars, queries>>
       ELSE /\ pc' = "gather"
            /\ settled' = [p \in Promises |->
                             IF Started(p) THEN Pending
                             ELSE [status |-> "skipped", answered |-> 0]]
            /\ connectivityStats' =
                 IF Started("connectivityStats") THEN <<>>
                 ELSE <<ConnectivityStatsFallback>>
            /\ fieldDistribution' =
                 IF Started("fieldDistribution") THEN <<>>
                 ELSE <<FieldDistributionFallback>>
            /\ queries' = Cardinality({p \in Promises : Started(p)})
            /\ UNCHANGED <<systemStats, report>>
  /\ UNCHANGED <<libraryVars, graphVars, optionVars, depth, results>>

\* the value a function resolves to once its last query is answered
Resolve(p, value) ==
  /\ systemStats' = IF p = "systemStats" THEN <<value>> ELSE systemStats
  /\ connectivityStats' = IF p = "connectivityStats" THEN <<value>> ELSE connectivityStats
  /\ fieldDistribution' = IF p = "fieldDistribution" THEN <<value>> ELSE fieldDistribution

Resolutions(p) ==
  CASE p = "systemStats"       -> {GetSystemStats}
    [] p = "connectivityStats" -> {GetConnectivityStats}
    [] p = "fieldDistribution" -> GetFieldDistribution(topCount)

Fallback(p) ==
  CASE p = "systemStats"       -> SystemStatsFallback
    [] p = "connectivityStats" -> ConnectivityStatsFallback
    [] p = "fieldDistribution" -> FieldDistributionFallback

\* the query a function awaits is answered: it issues its next query, or
\* returns after its last one
QueryAnswered(p) ==
  /\ pc = "gather"
  /\ settled[p].status = "pending"
  /\ IF settled[p].answered + 1 < QueryCount(p)
       THEN /\ settled' = [settled EXCEPT ![p].answered = @ + 1]
            /\ queries' = queries + 1
            /\ UNCHANGED <<systemStats, connectivityStats, fieldDistribution>>
       ELSE /\ settled' = [settled EXCEPT ![p] = [status |-> "ok", answered |-> QueryCount(p)]]
            /\ queries' = queries
            /\ \E value \in Resolutions(p) : Resolve(p, value)
  /\ UNCHANGED <<libraryVars, graphVars, optionVars, depth, results, pc, report>>

\* the query a function awaits throws: its catch block returns the fallback
QueryThrows(p) ==
  /\ pc = "gather"
  /\ settled[p].status = "pending"
  /\ settled' = [settled EXCEPT ![p].status = "fallback"]
  /\ Resolve(p, Fallback(p))
  /\ UNCHANGED <<libraryVars, graphVars, optionVars, depth, results, pc, report, queries>>

\* formatOutput: avgInputFields.toFixed(1) throws on null in the markdown
\* and text formats
FormatThrows == format # "json" /\ systemStats[1].avgInputFields = <<>>

\* main, lines 452-466: Promise.all has resolved
SummaryReport ==
  /\ pc = "gather"
  /\ \A p \in Promises : settled[p].status # "pending"
  /\ ~FormatThrows
  /\ report' = <<[systemStats       |-> systemStats[1],
                  connectivityStats |-> connectivityStats[1],
                  fieldDistribution |-> fieldDistribution[1],
                  riskAssessment    |-> GenerateRiskAssessment(fieldDistribution[1])]>>
  /\ pc' = "done"
  /\ UNCHANGED <<libraryVars, graphVars, optionVars, depth, results, queries, settled,
                 systemStats, connectivityStats, fieldDistribution>>

\* main, lines 470-474: the catch block
SummaryFails ==
  /\ pc = "gather"
  /\ \A p \in Promises : settled[p].status # "pending"
  /\ FormatThrows
  /\ pc' = "failed"
  /\ UNCHANGED <<libraryVars, graphVars, optionVars, summaryVars, depth, results, queries>>

SummaryNext ==
  \/ SummaryValidate
  \/ \E p \in Promises : QueryAnswered(p)
  \/ \E p \in Promises : QueryThrows(p)
  \/ SummaryReport
  \/ SummaryFails

SpecSummary == SummaryInit /\ [][SummaryNext]_vars

\* --------------------------------- critical-fields and impact-summary runs
\* critical-fields with the summary format over the band populations
CriticalBandsInit ==
  /\ fieldStats \in BandPopulations
  /\ minConsumers \in {0, 1}
  /\ limit = MaxLimitArg
  /\ sortBy = "consumers"
  /\ format = "summary"
  /\ CriticalStart

FieldToolsNext ==
  \/ tool = "critical-fields" /\ CriticalNext
  \/ tool = "impact-summary" /\ SummaryNext

\* a run of either tool that reports on fields
SpecFieldTools == (CriticalBandsInit \/ SummaryInit) /\ [][FieldToolsNext]_vars

\* ---------------------------------------- a call of generatePathDescription
\* the lists of at most n members of S
ListsUpTo(S, n) == UNION {[1..k -> S] : k \in 0..n}

\* the tools that are not running during a library call
ToolsIdle ==
  /\ GraphToolsIdle
  /\ FieldToolsIdle
  /\ limit = 0
  /\ results = <<>>
  /\ queries = 0

\* unit names as the graph has them, "a", "b" and "[a] -> b", and the field
\* names "f", "g" and "f g"
DescribeInit ==
  /\ rowBusinessFunctions \in
       ListsUpTo({<<"a">>, <<"b">>, <<"[", "a", "]", " ", "-", ">", " ", "b">>},
                 MaxRowUnits)
  /\ rowFields \in
       ListsUpTo({<<"f">>, <<"g">>, <<"f", " ", "g">>}, MaxRowUnits - 1)
  /\ pathDescription = <<>>
  /\ csvFilePaths = <<>> /\ uploadOptions = <<>> /\ processEnv = {}
  /\ envFile = <<>> /\ s3Client = <<>> /\ uploadPromises = <<>> /\ thrown = <<>>
  /\ DiscoverIdle
  /\ ConnectionIdle
  /\ tool = "generatePathDescription"
  /\ pc = "call"
  /\ ToolsIdle

GeneratePathDescriptionCall ==
  /\ tool = "generatePathDescription"
  /\ pc = "call"
  /\ pathDescription' = PathDescriptionText(rowBusinessFunctions, rowFields)
  /\ pc' = "returned"
  /\ UNCHANGED <<graphVars, optionVars, summaryVars, depth, results, queries,
                 rowBusinessFunctions, rowFields, uploadVars, discoverVars,
                 connectionVars>>

SpecDescribe == DescribeInit /\ [][GeneratePathDescriptionCall]_vars

\* ------------------------------------------------------------ csv-uploader.ts
\* existsSync and statSync(..).isFile() on the paths of the file system
PathKind(path) ==
  CASE path \in {"a.csv", "b.csv"} -> "file"
    [] path = "dir"                 -> "directory"
    [] path = "gone.csv"            -> "missing"

InvalidFilesMissingOnly(paths) ==
  Keep(paths, {p \in {paths[i] : i \in DOMAIN paths} : PathKind(p) = "missing"})

\* lines 31-35
InvalidFiles(paths) ==
  Keep(paths, {p \in {paths[i] : i \in DOMAIN paths} : PathKind(p) # "file"})

\* discoverAwsConfig: the result for the explicit configuration and the
\* environment as it is once the discovered .env file is loaded
DiscoverAwsConfig(explicitConfig, env) ==
  LET region          == explicitConfig.region \/ "AWS_REGION" \in env
      accessKeyId     == explicitConfig.accessKeyId \/ "AWS_ACCESS_KEY_ID" \in env
      secretAccessKey == explicitConfig.secretAccessKey \/ "AWS_SECRET_ACCESS_KEY" \in env
      credentialSource ==
        IF explicitConfig.accessKeyId /\ explicitConfig.secretAccessKey THEN "explicit"
        ELSE IF accessKeyId /\ secretAccessKey THEN "environment"
        ELSE "aws-sdk-default"
      s3MissingVars == Keep(<<"S3_BUCKET">>, {"S3_BUCKET"} \ env)
      requiredVars  == <<"AWS_ACCESS_KEY_ID", "AWS_SECRET_ACCESS_KEY">> \o
                         (IF region THEN <<>> ELSE <<"AWS_REGION">>)
      missingVars   == IF credentialSource = "environment"
                         THEN s3MissingVars \o
                              Keep(requiredVars,
                                   {requiredVars[i] : i \in DOMAIN requiredVars} \ env)
                         ELSE s3MissingVars
  IN [config      |-> [region |-> region, accessKeyId |-> accessKeyId,
                       secretAccessKey |-> secretAccessKey],
      isValid     |-> IF credentialSource = "environment" THEN missingVars = <<>>
                      ELSE s3MissingVars = <<>>,
      missingVars |-> missingVars,
      source      |-> credentialSource]

UploadInit ==
  /\ csvFilePaths \in ListsUpTo({"a.csv", "b.csv", "dir", "gone.csv"}, MaxPaths)
  /\ uploadOptions \in [bucket : BOOLEAN, region : BOOLEAN,
                         accessKeyId : BOOLEAN, secretAccessKey : BOOLEAN]
  /\ uploadOptions.accessKeyId = uploadOptions.secretAccessKey
  /\ processEnv \in SUBSET {"S3_BUCKET", "AWS_ACCESS_KEY_ID",
                              "AWS_SECRET_ACCESS_KEY", "AWS_REGION"}
  /\ envFile \in {<<>>,
                   <<{"AWS_ACCESS_KEY_ID", "AWS_SECRET_ACCESS_KEY", "AWS_REGION"}>>,
                   <<{"AWS_ACCESS_KEY_ID", "AWS_SECRET_ACCESS_KEY", "AWS_REGION",
                      "S3_BUCKET"}>>}
  /\ s3Client = <<>>
  /\ uploadPromises = <<>>
  /\ thrown = <<>>
  /\ rowBusinessFunctions = <<>> /\ rowFields = <<>> /\ pathDescription = <<>>
  /\ DiscoverIdle
  /\ ConnectionIdle
  /\ tool = "uploadCsvFiles"
  /\ pc = "start"
  /\ ToolsIdle

\* lines 20-39: the bucket, then every path, before anything else
UploadCsvFilesStart ==
  /\ tool = "uploadCsvFiles"
  /\ pc = "start"
  /\ IF ~(uploadOptions.bucket \/ "S3_BUCKET" \in processEnv)
       THEN /\ thrown' = <<[message |-> "S3 bucket must be specified", names |-> <<>>]>>
            /\ pc' = "failed"
       ELSE IF InvalidFiles(csvFilePaths) # <<>>
         THEN /\ thrown' = <<[message |-> "Invalid file paths",
                              names   |-> InvalidFiles(csvFilePaths)]>>
              /\ pc' = "failed"
         ELSE /\ thrown' = thrown
              /\ pc' = "createS3Client"
  /\ UNCHANGED <<graphVars, optionVars, summaryVars, depth, results, queries,
                 descriptionVars, discoverVars, connectionVars, csvFilePaths, uploadOptions, processEnv, envFile,
                 s3Client, uploadPromises>>

\* lines 41-55: createS3Client loads the discovered .env file (dotenv keeps
\* what is already set), discovers the configuration and validates it when
\* the credentials come from the environment; then every upload is started
CreateS3Client ==
  /\ tool = "uploadCsvFiles"
  /\ pc = "createS3Client"
  /\ processEnv' = processEnv \cup (IF envFile = <<>> THEN {} ELSE envFile[1])
  /\ LET configResult == DiscoverAwsConfig(uploadOptions, processEnv') IN
       IF configResult.source = "environment" /\ ~configResult.isValid
         THEN /\ thrown' = <<[message |-> "Missing required environment variables",
                              names   |-> configResult.missingVars]>>
              /\ pc' = "failed"
              /\ UNCHANGED <<s3Client, uploadPromises>>
         ELSE /\ s3Client' = <<[region      |-> IF configResult.config.region
                                                  THEN "configured" ELSE "us-east-1",
                                 credentials |-> /\ configResult.config.accessKeyId
                                                 /\ configResult.config.secretAccessKey]>>
              /\ uploadPromises' = [i \in DOMAIN csvFilePaths |-> "pending"]
              /\ pc' = "upload"
              /\ thrown' = thrown
  /\ UNCHANGED <<graphVars, optionVars, summaryVars, depth, results, queries,
                 descriptionVars, discoverVars, connectionVars, csvFilePaths, uploadOptions, envFile>>

\* lines 55-91: one upload sends its object and presigns the URL, or fails;
\* uploads that are under way go on after Promise.all has rejected
UploadFile(i) ==
  /\ tool = "uploadCsvFiles"
  /\ pc \in {"upload", "failed"}
  /\ i \in DOMAIN uploadPromises
  /\ uploadPromises[i] = "pending"
  /\ \E outcome \in {"uploaded", "rejected"} :
       uploadPromises' = [uploadPromises EXCEPT ![i] = outcome]
  /\ UNCHANGED <<graphVars, optionVars, summaryVars, depth, results, queries, pc,
                 descriptionVars, discoverVars, connectionVars, csvFilePaths, uploadOptions, processEnv, envFile,
                 s3Client, thrown>>

\* lines 93-100: Promise.all resolves once every upload has, and rejects with
\* the first upload that fails
UploadSettles ==
  /\ tool = "uploadCsvFiles"
  /\ pc = "upload"
  /\ IF \E i \in DOMAIN uploadPromises : uploadPromises[i] = "rejected"
       THEN /\ thrown' = <<[message |-> "Batch upload failed",
                            names   |-> <<csvFilePaths[CHOOSE i \in DOMAIN uploadPromises :
                                                        uploadPromises[i] = "rejected"]>>]>>
            /\ pc' = "failed"
            /\ results' = results
       ELSE /\ \A i \in DOMAIN uploadPromises : uploadPromises[i] = "uploaded"
            /\ results' = [i \in DOMAIN csvFilePaths |-> [localPath |-> csvFilePaths[i]]]
            /\ pc' = "done"
            /\ thrown' = thrown
  /\ UNCHANGED <<graphVars, optionVars, summaryVars, depth, queries,
                 descriptionVars, discoverVars, connectionVars, csvFilePaths, uploadOptions, processEnv, envFile,
                 s3Client, uploadPromises>>

UploadNext ==
  \/ UploadCsvFilesStart
  \/ CreateS3Client
  \/ \E i \in 1..MaxPaths : UploadFile(i)
  \/ UploadSettles

SpecUpload == UploadInit /\ [][UploadNext]_vars

\* ---------------------------------------------------------- env-finder.ts
\* envFileNames, in priority order
EnvFileNames == <<".env.local", ".env">>

FoundInLastFirst(dir) == Reverse(Keep(EnvFileNames, dirFiles[dir + 1]))

\* lines 587-614: the listed files fs.promises.access finds readable in a
\* directory, in the order they are tried
FoundIn(dir) == Keep(EnvFileNames, dirFiles[dir + 1])

\* a directory is its distance from the filesystem root; the directories
\* from the root down to startDir hold any of the listed files
DiscoverInit ==
  /\ startDir \in 0..MaxDirDepth
  /\ dirFiles \in [1..(startDir + 1) -> SUBSET {".env.local", ".env"}]
  /\ maxLevels \in 0..(MaxDirDepth + 2) \cup {DefaultMaxLevels}
  /\ verbose \in BOOLEAN
  /\ level = 0
  /\ currentDir = startDir
  /\ discovery = <<[envFilePath |-> <<>>, allFound |-> <<>>, searchedLevels |-> 0]>>
  /\ rowBusinessFunctions = <<>> /\ rowFields = <<>> /\ pathDescription = <<>>
  /\ csvFilePaths = <<>> /\ uploadOptions = <<>> /\ processEnv = {}
  /\ envFile = <<>> /\ s3Client = <<>> /\ uploadPromises = <<>> /\ thrown = <<>>
  /\ ConnectionIdle
  /\ tool = "discoverEnvFile"
  /\ pc = "search"
  /\ ToolsIdle

\* lines 579-634: one turn of the loop, or the return after the last one
DiscoverEnvFileStep ==
  /\ tool = "discoverEnvFile"
  /\ pc = "search"
  /\ IF level < maxLevels
       THEN LET found == [k \in DOMAIN FoundIn(currentDir) |->
                            [dir |-> currentDir, name |-> FoundIn(currentDir)[k]]]
                path  == IF discovery[1].envFilePath # <<>> THEN discovery[1].envFilePath
                         ELSE IF found # <<>> THEN <<found[1]>>
                         ELSE <<>>
            IN /\ discovery' = <<[envFilePath    |-> path,
                                  allFound       |-> discovery[1].allFound \o found,
                                  searchedLevels |-> level + 1]>>
               /\ IF (path # <<>> /\ ~verbose) \/ currentDir = 0
                    THEN pc' = "returned" /\ UNCHANGED <<level, currentDir>>
                    ELSE /\ pc' = pc
                         /\ currentDir' = currentDir - 1
                         /\ level' = level + 1
       ELSE pc' = "returned" /\ UNCHANGED <<level, currentDir, discovery>>
  /\ UNCHANGED <<graphVars, optionVars, summaryVars, depth, results, queries,
                 descriptionVars, uploadVars, connectionVars,
                 dirFiles, startDir, maxLevels, verbose>>

SpecDiscover == DiscoverInit /\ [][DiscoverEnvFileStep]_vars

\* ------------------------------------------------------ neo4j-connection.ts
\* the async callers of queryNeo4j that run side by side, as the three
\* functions under Promise.all in impact-summary do
Callers == 1..NumCallers

ConnectionInit ==
  /\ globalConnection = 0
  /\ connDriver = <<>>
  /\ callers = [c \in Callers |->
                  [pc |-> "idle", conn |-> 0, calls |-> 0, error |-> "none"]]
  /\ closing = FALSE
  /\ rowBusinessFunctions = <<>> /\ rowFields = <<>> /\ pathDescription = <<>>
  /\ csvFilePaths = <<>> /\ uploadOptions = <<>> /\ processEnv = {}
  /\ envFile = <<>> /\ s3Client = <<>> /\ uploadPromises = <<>> /\ thrown = <<>>
  /\ DiscoverIdle
  /\ tool = "queryNeo4j"
  /\ pc = "run"
  /\ ToolsIdle

\* queryNeo4j, line 140, into getNeo4jConnection and connect() up to the
\* first await: with no singleton a connection is made, becomes the
\* singleton and makes its driver; with a singleton that one is returned
GetNeo4jConnection(c) ==
  /\ tool = "queryNeo4j"
  /\ callers[c].pc = "idle"
  /\ callers[c].calls < MaxCalls
  /\ IF globalConnection = 0
       THEN /\ connDriver' = Append(connDriver, TRUE)
            /\ globalConnection' = Len(connDriver) + 1
            /\ callers' = [callers EXCEPT ![c] =
                             [pc |-> "verifyConnectivity", conn |-> Len(connDriver) + 1,
                              calls |-> @.calls + 1, error |-> "none"]]
       ELSE /\ callers' = [callers EXCEPT ![c] =
                             [pc |-> "connected", conn |-> globalConnection,
                              calls |-> @.calls + 1, error |-> "none"]]
            /\ UNCHANGED <<globalConnection, connDriver>>
  /\ UNCHANGED <<graphVars, optionVars, summaryVars, depth, results, queries, pc,
                 descriptionVars, uploadVars, discoverVars, closing>>

\* connect(), lines 43-47: the connectivity check passes, or it fails, the
\* driver of the connection is dropped and the call is rejected
VerifyConnectivity(c) ==
  /\ tool = "queryNeo4j"
  /\ callers[c].pc = "verifyConnectivity"
  /\ \/ /\ callers' = [callers EXCEPT ![c].pc = "connected"]
        /\ UNCHANGED connDriver
     \/ /\ connDriver' = [connDriver EXCEPT ![callers[c].conn] = FALSE]
        /\ callers' = [callers EXCEPT ![c].pc = "idle",
                                       ![c].error = "Failed to connect to Neo4j"]
  /\ UNCHANGED <<graphVars, optionVars, summaryVars, depth, results, queries, pc,
                 descriptionVars, uploadVars, discoverVars, globalConnection, closing>>

\* queryNeo4j, line 141: executeQuery on the connection that was returned;
\* getSession throws when that connection has no driver
ExecuteQuery(c) ==
  /\ tool = "queryNeo4j"
  /\ callers[c].pc = "connected"
  /\ IF connDriver[callers[c].conn]
       THEN \E outcome \in {"none", "Neo4j query failed"} :
              callers' = [callers EXCEPT ![c].pc = "idle", ![c].error = outcome]
       ELSE callers' = [callers EXCEPT ![c].pc = "idle",
                                       ![c].error = "Neo4j driver not connected"]
  /\ UNCHANGED <<graphVars, optionVars, summaryVars, depth, results, queries, pc,
                 descriptionVars, uploadVars, discoverVars,
                 globalConnection, connDriver, closing>>

\* closeGlobalConnection, lines 128-129, up to the await
CloseGlobalConnection ==
  /\ tool = "queryNeo4j"
  /\ globalConnection # 0
  /\ ~closing
  /\ closing' = TRUE
  /\ UNCHANGED <<graphVars, optionVars, summaryVars, depth, results, queries, pc,
                 descriptionVars, uploadVars, discoverVars,
                 globalConnection, connDriver, callers>>

\* disconnect() has closed the driver, if there was one: lines 53 and 130
DisconnectReturns ==
  /\ tool = "queryNeo4j"
  /\ closing
  /\ connDriver' = [connDriver EXCEPT ![globalConnection] = FALSE]
  /\ globalConnection' = 0
  /\ closing' = FALSE
  /\ UNCHANGED <<graphVars, optionVars, summaryVars, depth, results, queries, pc,
                 descriptionVars, uploadVars, discoverVars, callers>>

ConnectionNext ==
  \/ \E c \in Callers : GetNeo4jConnection(c)
  \/ \E c \in Callers : VerifyConnectivity(c)
  \/ \E c \in Callers : ExecuteQuery(c)
  \/ CloseGlobalConnection
  \/ DisconnectReturns

SpecConnection == ConnectionInit /\ [][ConnectionNext]_vars

\* ------------------------------------------------ a run of any of the tools
ToolsNext ==
  \/ tool = "impact-analysis" /\ ImpactNext
  \/ tool = "dependency-path" /\ PathNext
  \/ tool = "critical-fields" /\ CriticalNext

SpecTools == (ImpactInit \/ PathInit \/ CriticalInit) /\ [][ToolsNext]_vars

\* ------------------------------------------------ impact-analysis: claims
UnitRun == pc = "done" /\ ~isOutputField /\ identifier \in Units

RowsFor(u) == {i \in DOMAIN results : results[i].affectedBusinessFunction = u}

Tagged(u, d) ==
  \E i \in DOMAIN results :
    results[i].affectedBusinessFunction = u /\ results[i].impactDepth = d

RECURSIVE ReachedAt(_, _)
\* the units at the end of a produce/consume chain of d consuming units from f
ReachedAt(f, d) ==
  IF d = 1 THEN {u \in Units : <<u, f>> \in inputFields}
  ELSE UNION {ReachedAt(outputField[u], d - 1) :
                u \in {v \in Units : <<v, f>> \in inputFields}}

Reached(f, u, d) == u \in ReachedAt(f, d)

\* the scenario graph: A produces F1, B consumes F1 and produces F2,
\* C consumes F2 (and produces F3, which nothing consumes)
IsChain ==
  /\ outputField = [u \in Units |-> u]
  /\ inputFields = {<<2, 1>>, <<3, 2>>}

AffectedDepths == [i \in DOMAIN results |->
                     <<results[i].affectedBusinessFunction, results[i].impactDepth>>]

\* C1: analysing unit U with maxDepth = 1 returns exactly one edge for each
\* unit that consumes U's output field, no edge for any other unit, and every
\* returned edge is tagged depth 1.
C1_DirectImpactExact ==
  (UnitRun /\ maxDepth = 1) =>
    /\ \A u \in Units :
         Cardinality(RowsFor(u)) =
           IF <<u, outputField[identifier]>> \in inputFields THEN 1 ELSE 0
    /\ \A i \in DOMAIN results :
         /\ results[i].impactDepth = 1
         /\ results[i].sourceBusinessFunction = identifier
         /\ results[i].affectedBusinessFunction \in Units

C1_Witness ==
  /\ UnitRun /\ maxDepth = 1
  /\ Len(results) = 2
  /\ \E u \in Units : <<u, outputField[identifier]>> \notin inputFields

\* C2: on the chain graph analysing A gives [B at depth 1] for maxDepth = 1 and
\* [B at depth 1, C at depth 2] for maxDepth = 2; for every maxDepth >= 2 the
\* result holds every direct consumer of the source's output tagged depth 1.
C2_ChainScenario ==
  UnitRun =>
    /\ (IsChain /\ identifier = 1 /\ maxDepth = 1) => AffectedDepths = <<(<<2, 1>>)>>
    /\ (IsChain /\ identifier = 1 /\ maxDepth = 2) => AffectedDepths = <<(<<2, 1>>), (<<3, 2>>)>>
    /\ maxDepth >= 2 =>
         \A u \in Units :
           <<u, outputField[identifier]>> \in inputFields => Tagged(u, 1)

\* C3: every returned edge has 1 <= depth <= maxDepth.
C3_DepthWithinBound ==
  pc = "done" =>
    \A i \in DOMAIN results :
      1 <= results[i].impactDepth /\ results[i].impactDepth <= maxDepth

\* C4: a unit reached by chains of two different lengths within the bound has
\* an edge tagged with each of the two lengths, and the result is the level
\* lists appended in increasing level order.
C4_NoDedupAcrossLevels ==
  UnitRun =>
    /\ \A u \in Units : \A d1, d2 \in 1..maxDepth :
         (d1 # d2 /\ Reached(outputField[identifier], u, d1)
                  /\ Reached(outputField[identifier], u, d2))
           => (Tagged(u, d1) /\ Tagged(u, d2))
    /\ \A i, j \in DOMAIN results :
         i < j => results[i].impactDepth <= results[j].impactDepth

ImpactEnded == pc \in {"done", "failed", "rejected"}

\* an upper bound on the steps main() still has to take
StepsLeft ==
  CASE pc = "validate" -> maxDepth + 3
    [] pc = "direct"   -> 1
    [] pc = "multihop" -> maxDepth + 2 - depth
    [] OTHER           -> 0

\* C5: the run always ends, on cyclic graphs too: every step of main() lowers
\* the number of steps left, which never goes below zero, so no run is
\* infinite; once the loop bound is passed the next step returns; and a run
\* that returns has issued exactly maxDepth level queries whatever the graph.
C5_TerminatesWithMaxDepthQueries ==
  [][/\ StepsLeft' < StepsLeft
     /\ StepsLeft' >= 0
     /\ ((pc = "multihop" /\ ~LoopContinues(depth, maxDepth)) => pc' = "done")
     /\ (pc' = "done" => queries' = maxDepth)]_vars


\* some unit is reached again by a longer chain: the produce/consume
\* relation has a cycle through the analysed output
C5_Witness ==
  /\ UnitRun /\ maxDepth = MaxDepthArg /\ queries = MaxDepthArg
  /\ \E u \in Units : \A d \in 1..(MaxDepthArg + 1) :
       Reached(outputField[identifier], u, d)


\* ------------------------------------------------ dependency-path: claims
PathDone == pc = "done" /\ pathType \in PathTypes

Min(a, b) == IF a < b THEN a ELSE b

\* the fields a unit touches, as input or as output
Touches(u) ==
  IF u \in Units
    THEN {outputField[u]} \cup {f \in Fields : <<u, f>> \in inputFields}
    ELSE {}

Adjacent(u, v) == u # v /\ Touches(u) \cap Touches(v) # {}

RECURSIVE ReachWithin(_, _)
\* the units within k undirected unit-hops of a unit of S
ReachWithin(S, k) ==
  IF k = 0 THEN S
  ELSE ReachWithin(S \cup {v \in Units : \E u \in S : Adjacent(u, v)}, k - 1)

Connected == target \in ReachWithin({source}, maxDepth)

MinHops == CHOOSE k \in 1..maxDepth :
             /\ target \in ReachWithin({source}, k)
             /\ \A j \in 1..(k - 1) : target \notin ReachWithin({source}, j)

NoRepeat(seq) == \A i, j \in DOMAIN seq : i # j => seq[i] # seq[j]

BagOf(seq) == [r \in {seq[i] : i \in DOMAIN seq} |->
                 Cardinality({i \in DOMAIN seq : seq[i] = r})]

\* C6: every returned path has pathLength + 1 units and pathLength fields,
\* starts at the source and ends at the target, under every strategy.
C6_PathShape ==
  PathDone =>
    \A i \in DOMAIN results :
      /\ Len(results[i].businessFunctions) = results[i].pathLength + 1
      /\ Len(results[i].fields) = results[i].pathLength
      /\ results[i].businessFunctions[1] = source
      /\ Last(results[i].businessFunctions) = target

C6_Witness ==
  /\ PathDone
  /\ \E i \in DOMAIN results : results[i].pathLength >= 2

\* C7: for the same graph and options no path returned with 'shortest' is
\* longer than any path returned with 'all'.
C7_ShortestNotLongerThanAll ==
  /\ (PathDone /\ pathType = "shortest") =>
       \A i \in DOMAIN results :
         \A R \in QueryResults("all", source, target, maxDepth, limit) :
           \A j \in DOMAIN R : results[i].pathLength <= R[j].pathLength
  /\ (PathDone /\ pathType = "all") =>
       \A R \in QueryResults("shortest", source, target, maxDepth, limit) :
         \A i \in DOMAIN R : \A j \in DOMAIN results :
           R[i].pathLength <= results[j].pathLength

C7_Witness ==
  /\ PathDone /\ pathType = "all"
  /\ \E R \in QueryResults("shortest", source, target, maxDepth, limit) :
       \E i \in DOMAIN R : \E j \in DOMAIN results :
         R[i].pathLength < results[j].pathLength

\* C8: 'shortest' follows relationships in either direction: when source and
\* target are within maxDepth undirected unit-hops it returns between one and
\* limit paths, each of the minimum number of unit-hops; on the chain graph
\* with maxDepth = 3 it returns the one path A, B, C of length 2.
C8_ShortestUndirectedMinimum ==
  (PathDone /\ pathType = "shortest") =>
    /\ Connected =>
         /\ 1 <= Len(results) /\ Len(results) <= limit
         /\ \A i \in DOMAIN results : results[i].pathLength = MinHops
    /\ (IsChain /\ source = 1 /\ target = 3 /\ maxDepth = 3) =>
         /\ Len(results) = 1
         /\ results[1].pathLength = 2
         /\ results[1].businessFunctions = <<1, 2, 3>>

\* the first field of the returned path is not the source's output: the
\* source's HAS_INPUT_FIELD relationship is followed against its direction
C8_Witness ==
  /\ PathDone /\ pathType = "shortest"
  /\ Len(results) = 1
  /\ results[1].pathLength = 2
  /\ results[1].fields[1] # outputField[source]

\* C9: 'all' and 'longest' enumerate the same paths of at most maxDepth
\* unit-hops; 'all' lists them by non-decreasing and 'longest' by
\* non-increasing length, each cut to the first limit rows, so with at most
\* limit paths both return the same multiset of paths.
C9_AllAndLongestSameEnumeration ==
  LET matched == MatchedPaths(source, target, maxDepth)
      other   == IF pathType = "all" THEN "longest" ELSE "all"
  IN (PathDone /\ pathType \in {"all", "longest"}) =>
       /\ Len(results) = Min(limit, Cardinality(matched))
       /\ \A i \in DOMAIN results : \E p \in matched : results[i] = PathRow(p)
       /\ \A i, j \in DOMAIN results :
            i < j => IF pathType = "all"
                       THEN results[i].pathLength <= results[j].pathLength
                       ELSE results[i].pathLength >= results[j].pathLength
       /\ \A i \in DOMAIN results :
            Cardinality({p \in matched :
                           IF pathType = "all"
                             THEN Len(p) \div 2 < results[i].pathLength
                             ELSE Len(p) \div 2 > results[i].pathLength}) < i
       /\ Cardinality(matched) <= limit =>
            \A R \in QueryResults(other, source, target, maxDepth, limit) :
              BagOf(R) = BagOf(results)

C9_Witness ==
  /\ PathDone /\ pathType = "longest"
  /\ Cardinality(MatchedPaths(source, target, maxDepth)) = 2
  /\ Len(results) = 2
  /\ results[1].pathLength > results[2].pathLength

\* C10: every path returned by 'all' or 'longest' is simple: no unit and no
\* field occurs twice in it.
C10_SimplePaths ==
  (PathDone /\ pathType \in {"all", "longest"}) =>
    \A i \in DOMAIN results :
      NoRepeat(results[i].businessFunctions) /\ NoRepeat(results[i].fields)

\* ------------------------------------------------ critical-fields: claims
Ranked == tool = "critical-fields" /\ pc \in {"distribution", "done"}

\* C11: the ranking returns only fields with at least one producer and at
\* least minConsumers consumers, each once with its own counts, in
\* non-increasing order of the chosen key, the first limit of them at most;
\* every record has totalConnections = producerCount + consumerCount and
\* impactRatio = consumerCount / producerCount, zero consumers included.
C11_RankingContract ==
  Ranked =>
    /\ Len(results) =
         Min(limit, Cardinality({f \in FieldNames :
                                   /\ fieldStats[f].producers >= 1
                                   /\ fieldStats[f].consumers >= minConsumers}))
    /\ \A i \in DOMAIN results :
         /\ results[i].fieldName \in FieldNames
         /\ results[i].producerCount = fieldStats[results[i].fieldName].producers
         /\ results[i].consumerCount = fieldStats[results[i].fieldName].consumers
         /\ results[i].producerCount >= 1
         /\ results[i].consumerCount >= minConsumers
         /\ results[i].totalConnections =
              results[i].producerCount + results[i].consumerCount
         /\ results[i].impactRatio[2] > 0
         /\ GCD(results[i].impactRatio[1], results[i].impactRatio[2]) = 1
         /\ results[i].impactRatio[1] * results[i].producerCount =
              results[i].consumerCount * results[i].impactRatio[2]
    /\ \A i, j \in DOMAIN results :
         i < j =>
           /\ results[i].fieldName # results[j].fieldName
           /\ CASE sortBy = "consumers" ->
                     results[i].consumerCount >= results[j].consumerCount
                [] sortBy = "producers" ->
                     results[i].producerCount >= results[j].producerCount
                [] sortBy = "ratio" ->
                     results[i].consumerCount * results[j].producerCount >=
                       results[j].consumerCount * results[i].producerCount

\* a field nothing consumes is ranked last by ratio, after a consumed field
C11_Witness ==
  /\ Ranked /\ pc = "done"
  /\ minConsumers = 0 /\ sortBy = "ratio"
  /\ Len(results) = 2
  /\ results[1].consumerCount > 0
  /\ results[2].consumerCount = 0
  /\ results[2].impactRatio = <<0, 1>>

\* ------------------------------------- field distribution and risk: claims
EligibleFields ==
  {f \in DOMAIN fieldStats : fieldStats[f].producers > 0 /\ fieldStats[f].consumers > 0}

CriticalReported == tool = "critical-fields" /\ pc = "done" /\ format = "summary"

DistributionReported ==
  tool = "impact-summary" /\ pc = "done" /\ settled["fieldDistribution"].status = "ok"

ExactlyOne(tests) == Cardinality({i \in DOMAIN tests : tests[i]}) = 1

FieldsWith(Test(_)) == Cardinality({f \in EligibleFields : Test(fieldStats[f].consumers)})

RECURSIVE SumCounts(_)
SumCounts(bands) ==
  IF bands = <<>> THEN 0 ELSE Head(bands).count + SumCounts(Tail(bands))

RECURSIVE SumPercent(_, _)
\* the sum of the percentages of the bands, in units of 1 / total
SumPercent(bands, total) ==
  IF bands = <<>> THEN 0
  ELSE Head(bands).percentage[1] * (total \div Head(bands).percentage[2])
         + SumPercent(Tail(bands), total)

\* C12: the consumer-count bands of either tool partition the eligible
\* fields: every eligible field passes the test of exactly one band, every
\* band reports the number of eligible fields that pass its test, the counts
\* sum to the number of eligible fields, and the percentages of the system
\* summary sum to 100 when there is an eligible field.
C12_BandsPartition ==
  /\ CriticalReported =>
       LET d == report[1].summary.distributionStats IN
         /\ \A f \in EligibleFields :
              LET c == fieldStats[f].consumers IN
                ExactlyOne(<<LowImpact(c), MediumImpact(c), HighImpact(c), CriticalImpact(c)>>)
         /\ d.lowImpact = FieldsWith(LowImpact)
         /\ d.mediumImpact = FieldsWith(MediumImpact)
         /\ d.highImpact = FieldsWith(HighImpact)
         /\ d.criticalImpact = FieldsWith(CriticalImpact)
         /\ d.lowImpact + d.mediumImpact + d.highImpact + d.criticalImpact =
              Cardinality(EligibleFields)
  /\ DistributionReported =>
       LET bands == report[1].fieldDistribution.byConsumerCount
           total == Cardinality(EligibleFields)
       IN
         /\ \A f \in EligibleFields :
              LET c == fieldStats[f].consumers IN
                ExactlyOne(<<Range1to10(c), Range11to50(c), Range51to100(c),
                             Range101to500(c), Range501to1000(c), Range1000plus(c)>>)
         /\ Len(bands) = 6
         /\ bands[1].count = FieldsWith(Range1to10)
         /\ bands[2].count = FieldsWith(Range11to50)
         /\ bands[3].count = FieldsWith(Range51to100)
         /\ bands[4].count = FieldsWith(Range101to500)
         /\ bands[5].count = FieldsWith(Range501to1000)
         /\ bands[6].count = FieldsWith(Range1000plus)
         /\ SumCounts(bands) = total
         /\ total > 0 =>
              /\ \A i \in DOMAIN bands : total % bands[i].percentage[2] = 0
              /\ SumPercent(bands, total) = 100 * total
         /\ total = 0 => \A i \in DOMAIN bands : bands[i].percentage = <<0, 1>>

\* two eligible fields in two different bands, each reported as one half
C12_Witness ==
  /\ DistributionReported
  /\ Cardinality(EligibleFields) = 2
  /\ Cardinality({i \in DOMAIN report[1].fieldDistribution.byConsumerCount :
                    report[1].fieldDistribution.byConsumerCount[i].percentage = <<50, 1>>}) = 2

\* the tier the thresholds 100, 500 and 1000 give a consumer count
Tier(c) ==
  CASE c > 1000             -> "CRITICAL"
    [] c > 500 /\ c <= 1000 -> "HIGH"
    [] c > 100 /\ c <= 500  -> "MEDIUM"
    [] c <= 100             -> "LOW"

\* C13: the risk tier is decided by the consumer count alone, with strict
\* thresholds (1000 is HIGH, 500 is MEDIUM, 100 is LOW; 1500, 600, 150 and 5
\* are CRITICAL, HIGH, MEDIUM and LOW), and the classifier of the
\* critical-fields report and the one of the system summary agree on every
\* consumer count.
C13_RiskTiers ==
  /\ CriticalReported =>
       LET risks == report[1].summary.risks IN
         /\ Len(risks) = Min(5, Len(results))
         /\ \A i \in DOMAIN risks :
              /\ risks[i] = Tier(results[i].consumerCount)
              /\ risks[i] = FieldRisk(results[i].consumerCount)
  /\ DistributionReported =>
       LET top  == report[1].fieldDistribution.topConsumerFields
           tier == report[1].riskAssessment.criticalFields
       IN /\ Len(tier) = Len(top)
          /\ \A i \in DOMAIN tier :
               /\ tier[i].field = top[i].field
               /\ tier[i].risk = Tier(fieldStats[top[i].field].consumers)
               /\ tier[i].risk = CriticalFieldsRisk(top[i].consumers)
  /\ \A f \in DOMAIN fieldStats :
       FieldRisk(fieldStats[f].consumers) = CriticalFieldsRisk(fieldStats[f].consumers)
  /\ <<FieldRisk(1500), FieldRisk(600), FieldRisk(150), FieldRisk(5)>> =
       <<"CRITICAL", "HIGH", "MEDIUM", "LOW">>
  /\ <<CriticalFieldsRisk(1500), CriticalFieldsRisk(600), CriticalFieldsRisk(150),
       CriticalFieldsRisk(5)>> = <<"CRITICAL", "HIGH", "MEDIUM", "LOW">>

\* the critical-fields report ranks a field of 1001 consumers CRITICAL and
\* one of exactly 1000 consumers HIGH
C13_Witness ==
  /\ CriticalReported
  /\ Len(results) = 2
  /\ results[1].consumerCount = 1001 /\ results[2].consumerCount = 1000
  /\ report[1].summary.risks = <<"CRITICAL", "HIGH">>

SummaryDone == tool = "impact-summary" /\ pc = "done"

\* the ranked fields of the report that are classified HIGH or CRITICAL
HighRiskRanked ==
  Cardinality({i \in DOMAIN report[1].fieldDistribution.topConsumerFields :
                 report[1].fieldDistribution.topConsumerFields[i].consumers > 500})

\* C14: the system fragility is decided by n, the number of ranked fields
\* classified HIGH or CRITICAL: CRITICAL for n > 20, HIGH for 10 < n <= 20,
\* MEDIUM for 5 < n <= 10, LOW for n <= 5; fields classified MEDIUM or LOW
\* do not count.
C14_SystemFragility ==
  SummaryDone =>
    /\ HighRiskRanked =
         Cardinality({i \in DOMAIN report[1].riskAssessment.criticalFields :
                        report[1].riskAssessment.criticalFields[i].risk \in {"HIGH", "CRITICAL"}})
    /\ report[1].riskAssessment.systemFragility =
         CASE HighRiskRanked > 20                          -> "CRITICAL"
           [] HighRiskRanked > 10 /\ HighRiskRanked <= 20  -> "HIGH"
           [] HighRiskRanked > 5 /\ HighRiskRanked <= 10   -> "MEDIUM"
           [] HighRiskRanked <= 5                          -> "LOW"

\* twenty HIGH or CRITICAL fields and one MEDIUM or LOW field are ranked: the
\* rating stays HIGH
C14_Witness ==
  /\ SummaryDone
  /\ HighRiskRanked = 20
  /\ Len(report[1].fieldDistribution.topConsumerFields) = 21
  /\ report[1].riskAssessment.systemFragility = "HIGH"

\* C15: the system summary has no partial success: when a query of any of
\* its parts has failed no report is produced, and a produced report holds
\* no placeholder in place of a part that failed.
C15_NoPartialSuccess ==
  (tool = "impact-summary" /\ \E p \in Promises : settled[p].status = "fallback") =>
    /\ pc # "done"
    /\ report = <<>>

\* the bands [1,10), [10,100), [100,1000), [1000,inf) of a consumer count
InBand(k, c) ==
  CASE k = 1 -> 1 <= c /\ c < 10
    [] k = 2 -> 10 <= c /\ c < 100
    [] k = 3 -> 100 <= c /\ c < 1000
    [] k = 4 -> 1000 <= c

CountInBand(k) ==
  Cardinality({f \in EligibleFields : InBand(k, fieldStats[f].consumers)})

\* C20: the field distribution of the system summary has the four bands
\* [1,10), [10,100), [100,1000), [1000,inf) of the critical-field
\* distribution, with the same count in each band.
C20_SameBands ==
  DistributionReported =>
    LET bands == report[1].fieldDistribution.byConsumerCount
        d     == GetFieldDistributionStats
    IN /\ Len(bands) = 4
       /\ \A k \in 1..4 : bands[k].count = CountInBand(k)
       /\ <<d.lowImpact, d.mediumImpact, d.highImpact, d.criticalImpact>> =
            [k \in 1..4 |-> bands[k].count]

\* ------------------------------------------ failures and rejections: claims
\* C16: when the query of level k of a multi-level analysis fails the run
\* ends in an error there: that query was issued once (k queries in all), no
\* step follows, so no later level is queried, and the rows collected from
\* the levels below k are not returned.
C16_LevelFailureAborts ==
  [][/\ pc # "failed"
     /\ pc' = "failed" =>
          /\ results' = <<>>
          /\ queries' = queries + 1
          /\ depth' = depth
          /\ pc = "multihop" => queries' = depth]_vars

\* level 2 fails after level 1 gave rows
C16_Witness ==
  /\ tool = "impact-analysis" /\ pc = "failed"
  /\ depth = 2 /\ queries = 2 /\ maxDepth = MaxDepthArg
  /\ Bindings(identifier, isOutputField, LevelPattern(1)) # <<>>
  /\ results = <<>>

\* the parameters the tools must refuse
InvalidParameters ==
  CASE tool = "impact-analysis" -> maxDepth < 1
    [] tool = "dependency-path" ->
         \/ maxDepth < 1
         \/ limit < 1
         \/ pathType \notin {"shortest", "all", "longest"}
         \/ source = target
    [] tool = "critical-fields" ->
         limit < 1 \/ sortBy \notin {"consumers", "producers", "ratio"}
    [] OTHER -> FALSE

\* C17: a run with an invalid parameter (impact analysis: depth < 1; path
\* finding: maxDepth < 1, limit < 1, unknown strategy, source = target; field
\* ranking: limit < 1, unknown sort key) ends rejected, and a rejected run
\* has issued no query, so has opened no connection, and returns nothing.
C17_RejectedBeforeQuery ==
  /\ InvalidParameters => (pc \in {"validate", "rejected"} /\ queries = 0)
  /\ pc = "rejected" => (queries = 0 /\ results = <<>> /\ report = <<>>)

\* path finding refuses source = target when every other option is valid
C17_Witness ==
  /\ tool = "dependency-path" /\ pc = "rejected"
  /\ source = target /\ source \in Units
  /\ maxDepth >= 1 /\ limit >= 1 /\ pathType \in PathTypes

\* ------------------------------------- impact-analysis: field mode and caps
FieldRun ==
  tool = "impact-analysis" /\ pc = "done" /\ isOutputField /\ identifier \in Fields

AffectedAt(d) ==
  {results[i].affectedBusinessFunction :
     i \in {j \in DOMAIN results : results[j].impactDepth = d}}

\* the <<affected unit, depth>> pairs an analysis of the name returns
AnalysisOf(id, isField) ==
  IF maxDepth = 1
    THEN {<<Last(b), 1>> :
            b \in {Bindings(id, isField, 1)[k] : k \in DOMAIN Bindings(id, isField, 1)}}
    ELSE UNION {{<<Last(b), LevelTag(d)>> :
                   b \in {Bindings(id, isField, LevelPattern(d))[k] :
                            k \in DOMAIN Bindings(id, isField, LevelPattern(d))}} :
                  d \in 1..maxDepth}

\* C18: analysing a field F starts at F: with maxDepth = 1 the affected
\* units are exactly the units that consume F, however many units produce F;
\* and when exactly one unit U produces F the result has the affected units
\* and depths of analysing U.
C18_FieldStartsAtField ==
  FieldRun =>
    /\ maxDepth = 1 =>
         AffectedAt(1) = {u \in Units : <<u, identifier>> \in inputFields}
    /\ \A u \in Units :
         {v \in Units : outputField[v] = identifier} = {u} =>
           {<<results[i].affectedBusinessFunction, results[i].impactDepth>> :
              i \in DOMAIN results} = AnalysisOf(u, FALSE)

\* C19: whatever the graph, the identifier mode and maxDepth >= 1, at most
\* 100 returned edges carry any one depth value.
C19_EveryLevelCapped ==
  (tool = "impact-analysis" /\ pc = "done") =>
    \A d \in 1..(maxDepth + 1) :
      Cardinality({i \in DOMAIN results : results[i].impactDepth = d}) <= LevelCap


\* ------------------------------------------ empty populations: claims
AllZero(bands) ==
  \A i \in DOMAIN bands : bands[i].count = 0 /\ bands[i].percentage = <<0, 1>>

\* C21: with no eligible field the distribution of either tool is well
\* defined: the four band counts of critical-fields are 0, the six consumer
\* bands and four producer bands of the system summary have count 0 and
\* percentage 0, and the run that computes the distribution ends in
\* failure only when a query throws.
C21_EmptyDistribution ==
  [][EligibleFields = {} =>
       /\ CriticalReported' =>
            LET d == report'[1].summary.distributionStats IN
              /\ d.lowImpact = 0 /\ d.mediumImpact = 0
              /\ d.highImpact = 0 /\ d.criticalImpact = 0
       /\ DistributionReported' =>
            LET d == report'[1].fieldDistribution IN
              /\ Len(d.byConsumerCount) = 6 /\ AllZero(d.byConsumerCount)
              /\ Len(d.byProducerCount) = 4 /\ AllZero(d.byProducerCount)
              /\ d.topConsumerFields = <<>> /\ d.topProducerFields = <<>>
       /\ (tool = "critical-fields" /\ pc # "failed" /\ pc' = "failed")
            => CriticalQueryFails
       /\ (tool = "impact-summary" /\ settled["fieldDistribution"].status = "pending"
             /\ settled'["fieldDistribution"].status = "fallback")
            => QueryThrows("fieldDistribution")]_vars

\* a field with a producer and no consumer, and a field with a consumer and
\* no producer: both tools have reported a distribution over no field
C21_Witness ==
  /\ EligibleFields = {}
  /\ Len(fieldStats) = 2
  /\ fieldStats[1].producers > 0 /\ fieldStats[2].consumers > 0
  /\ \/ CriticalReported /\ report[1].summary.averageConsumers = <<>>
     \/ DistributionReported


\* ------------------------------------------ recommended actions: claims
BaseActions ==
  <<"impact analysis tools", "change approval", "automated testing",
    "document business logic", "microservice boundaries">>

\* C22: the recommended actions of a report are the five base actions in
\* their fixed order when the fragility is LOW, MEDIUM or HIGH; exactly when
\* it is CRITICAL the list has seven elements, the emergency rollback first,
\* the architecture redesign last and the five base actions unchanged in
\* between.
C22_RecommendedActions ==
  SummaryDone =>
    LET risk    == report[1].riskAssessment
        actions == risk.recommendedActions
    IN /\ risk.systemFragility \in {"LOW", "MEDIUM", "HIGH", "CRITICAL"}
       /\ risk.systemFragility # "CRITICAL" => actions = BaseActions
       /\ risk.systemFragility = "CRITICAL" <=> Len(actions) = 7
       /\ risk.systemFragility = "CRITICAL" =>
            /\ actions[1] = "emergency rollback"
            /\ actions[7] = "architecture redesign"
            /\ SubSeq(actions, 2, 6) = BaseActions

\* a report of CRITICAL fragility
C22_Witness ==
  /\ SummaryDone
  /\ report[1].riskAssessment.systemFragility = "CRITICAL"
  /\ Len(report[1].riskAssessment.recommendedActions) = 7


\* ------------------------------------------ fragility and --top-count: claims
HighRiskReported ==
  Cardinality({i \in DOMAIN report[1].riskAssessment.criticalFields :
                 report[1].riskAssessment.criticalFields[i].risk \in {"CRITICAL", "HIGH"}})

\* C30: the fragility of a report is computed over the top-consumer fields
\* that were fetched and over nothing else: the classified fields are the
\* fetched ones, at most topCount of them, so the fragility is CRITICAL only
\* if topCount > 20, HIGH only if topCount > 10, MEDIUM only if topCount > 5,
\* and LOW whenever the distribution or the top fields are left out.
C30_FragilityWithinTopCount ==
  SummaryDone =>
    LET risk    == report[1].riskAssessment
        fetched == report[1].fieldDistribution.topConsumerFields
    IN /\ Len(fetched) <= topCount
       /\ Len(risk.criticalFields) = Len(fetched)
       /\ \A i \in DOMAIN fetched :
            /\ risk.criticalFields[i].field = fetched[i].field
            /\ risk.criticalFields[i].risk = Tier(fetched[i].consumers)
       /\ HighRiskReported <= topCount
       /\ risk.systemFragility = "CRITICAL" => topCount > 20 /\ HighRiskReported > 20
       /\ risk.systemFragility = "HIGH" => topCount > 10 /\ HighRiskReported > 10
       /\ risk.systemFragility = "MEDIUM" => topCount > 5 /\ HighRiskReported > 5
       /\ ~(includeDistribution /\ includeTopFields) => risk.systemFragility = "LOW"


\* ------------------------------------------ impact-analysis: unknown names and path fields
\* generateSummary, lines 114-135, which the summary format prints
GenerateSummary(rs) ==
  LET depths == {rs[i].impactDepth : i \in DOMAIN rs}
      maxD   == IF depths = {} THEN 0
                ELSE CHOOSE d \in depths : \A e \in depths : e <= d
      fields == UNION {{rs[i].pathFields[j] : j \in DOMAIN rs[i].pathFields} :
                       i \in DOMAIN rs}
  IN [totalAffectedBusinessFunctions |->
        Cardinality({rs[i].affectedBusinessFunction : i \in DOMAIN rs}),
      maxDepth          |-> maxD,
      criticalPaths     |-> Take(Keep(rs, {rs[i] : i \in {k \in DOMAIN rs :
                                                  rs[k].impactDepth = maxD}}), 10),
      fieldImpactCounts |->
        [f \in fields |->
           Cardinality({p \in UNION {{<<i, j>> : j \in DOMAIN rs[i].pathFields} :
                                     i \in DOMAIN rs} :
                          rs[p[1]].pathFields[p[2]] = f})]]

UnknownRun == tool = "impact-analysis" /\ identifier = NoSuchName

\* C23: an identifier that names no unit and no field gives the empty
\* result and a normal end at every maxDepth >= 1, in unit mode and in field
\* mode: the run ends in failure only when a query throws, and a run that
\* returns has queried every one of the maxDepth levels, has no row, and
\* summarizes to zero affected units, depth 0 and no path.
C23_UnknownIsEmpty ==
  [][UnknownRun =>
       /\ results' = <<>>
       /\ (pc # "failed" /\ pc' = "failed") => ImpactQueryFails
       /\ pc' = "rejected" => maxDepth < 1
       /\ pc' = "done" =>
            /\ maxDepth >= 1
            /\ queries' = maxDepth
            /\ GenerateSummary(results') =
                 [totalAffectedBusinessFunctions |-> 0,
                  maxDepth          |-> 0,
                  criticalPaths     |-> <<>>,
                  fieldImpactCounts |-> <<>>]]_vars

\* the deepest analysis of an unknown name has returned, on a graph where
\* some unit consumes the output of another
C23_Witness ==
  /\ UnknownRun
  /\ pc = "done"
  /\ maxDepth = MaxDepthArg
  /\ queries = MaxDepthArg
  /\ inputFields # {}

\* C28: in every row of an impact analysis the reported depth is the number
\* of fields in pathFields, and the first of them is the output field of the
\* source unit, which in field mode is the field that was named.
C28_DepthIsPathLength ==
  tool = "impact-analysis" =>
    \A i \in DOMAIN results :
      /\ results[i].impactDepth = Len(results[i].pathFields)
      /\ results[i].pathFields[1] = outputField[results[i].sourceBusinessFunction]
      /\ results[i].pathFields[1] = results[i].sourceOutputField
      /\ isOutputField => results[i].pathFields[1] = identifier

\* a field-mode analysis has returned rows of the depths 2 and 3
C28_Witness ==
  /\ tool = "impact-analysis" /\ pc = "done" /\ isOutputField
  /\ \E i, j \in DOMAIN results :
       /\ results[i].impactDepth = 2 /\ Len(results[i].pathFields) = 2
       /\ results[j].impactDepth = 3 /\ Len(results[j].pathFields) = 3


\* ------------------------------------------ path description: claims
Arrow(fs) ==
  IF fs = <<>> THEN <<"-", "-", ">">>
  ELSE <<"-", "-", "[">> \o Head(fs) \o <<"]", "-", "-", ">">>

RECURSIVE Rendered(_, _)
\* u0, the arrow of f0, u1, .. with one blank between neighbours
Rendered(us, fs) ==
  IF Len(us) = 1 THEN us[1]
  ELSE us[1] \o <<" ">> \o Arrow(fs) \o <<" ">>
         \o Rendered(Tail(us), IF fs = <<>> THEN <<>> ELSE Tail(fs))

RECURSIVE Split(_)
\* the blank-separated parts of a text
Split(text) ==
  IF \A i \in DOMAIN text : text[i] # " " THEN <<text>>
  ELSE LET cut == CHOOSE i \in DOMAIN text :
                    text[i] = " " /\ \A j \in 1..(i - 1) : text[j] # " "
       IN <<SubSeq(text, 1, cut - 1)>> \o Split(SubSeq(text, cut + 1, Len(text)))

NoBlank(texts) == \A k \in DOMAIN texts : \A i \in DOMAIN texts[k] : texts[k][i] # " "

Described == tool = "generatePathDescription" /\ pc = "returned"

\* C24: the description is decided by the unit list and the field list: the
\* empty unit list gives the empty text; units u0..un give u0, the arrow
\* labelled f0, u1, .. un joined by single blanks, a hop without field
\* rendered as the bare arrow; when no name holds a blank the text splits at
\* its blanks into exactly 2n+1 parts, the units in their order at the odd
\* places and the arrows at the even ones.
C24_DescriptionFromLists ==
  Described =>
    LET us == rowBusinessFunctions
        fs == rowFields
        n  == Len(us) - 1
    IN /\ us = <<>> => pathDescription = <<>>
       /\ us # <<>> => pathDescription = Rendered(us, fs)
       /\ (us # <<>> /\ NoBlank(us) /\ NoBlank(Take(fs, n))) =>
            LET parts == Split(pathDescription) IN
              /\ Len(parts) = 2 * n + 1
              /\ \A i \in 0..n : parts[2 * i + 1] = us[i + 1]
              /\ \A i \in 1..n :
                   parts[2 * i] = IF i <= Len(fs)
                                    THEN <<"-", "-", "[">> \o fs[i] \o <<"]", "-", "-", ">">>
                                    ELSE <<"-", "-", ">">>

\* three units and one field: the second hop is the bare arrow
C24_Witness ==
  /\ Described
  /\ Len(rowBusinessFunctions) = 3 /\ Len(rowFields) = 1
  /\ NoBlank(rowBusinessFunctions) /\ NoBlank(rowFields)
  /\ Len(Split(pathDescription)) = 5
  /\ Split(pathDescription)[4] = <<"-", "-", ">">>


\* ------------------------------------------ uploadCsvFiles: claims
Uploading == tool = "uploadCsvFiles"

\* the paths of the call that are missing or no regular file
BadPaths == {i \in DOMAIN csvFilePaths : csvFilePaths[i] \in {"dir", "gone.csv"}}

C26_BucketOptionSuffices ==
  (/\ Uploading
   /\ uploadOptions.bucket
   /\ ~uploadOptions.accessKeyId /\ ~uploadOptions.secretAccessKey
   /\ csvFilePaths # <<>> /\ BadPaths = {}
   /\ {"AWS_ACCESS_KEY_ID", "AWS_SECRET_ACCESS_KEY", "AWS_REGION"} \subseteq processEnv
   /\ "S3_BUCKET" \notin processEnv
   /\ pc \notin {"start", "createS3Client"})
    => /\ s3Client # <<>>
       /\ ~(pc = "failed" /\ thrown[1].message = "Missing required environment variables")


\* ------------------------------------------ discoverEnvFile: claims
\* the directories the walk may inspect: startDir and its ancestors, at
\* most maxLevels of them, none above the root
Inspectable == {d \in 0..startDir : startDir - d < maxLevels}

\* the inspectable directories that hold a listed file
Holding == {d \in Inspectable : dirFiles[d + 1] \cap {".env.local", ".env"} # {}}

\* the file that is to be found: in the nearest holding directory, the name
\* listed first
Nearest ==
  IF Holding = {} THEN <<>>
  ELSE LET d == CHOOSE x \in Holding : \A y \in Holding : y <= x
       IN <<[dir |-> d, name |-> IF ".env.local" \in dirFiles[d + 1]
                                   THEN ".env.local" ELSE ".env"]>>

\* C27: discoverEnvFile walks upward from startDir, inspects at most
\* maxLevels directories and none above the root, and ends; the path it
\* returns is the first-listed file of the nearest inspected directory that
\* holds a listed file, or null when none does, whether verbose or not.
C27_NearestEnvFile ==
  [][tool = "discoverEnvFile" =>
       /\ discovery'[1].searchedLevels <= maxLevels
       /\ discovery'[1].searchedLevels <= startDir + 1
       /\ (pc = "search" /\ level < maxLevels) =>
            /\ currentDir = startDir - level /\ currentDir \in Inspectable
            /\ discovery'[1].searchedLevels = level + 1
       /\ (pc = "search" /\ pc' = "search") => level' = level + 1 /\ level' <= maxLevels
       /\ (pc = "search" /\ level >= maxLevels) => pc' = "returned"
       /\ pc' = "returned" => discovery'[1].envFilePath = Nearest]_vars

\* a verbose search that went on past the directory of the file it returns
C27_Witness ==
  /\ tool = "discoverEnvFile" /\ pc = "returned" /\ verbose
  /\ discovery[1].envFilePath = <<[dir |-> startDir, name |-> ".env.local"]>>
  /\ Len(discovery[1].allFound) >= 3
  /\ discovery[1].searchedLevels = MaxDirDepth + 1

\* ------------------------------------------ the global connection: claims
\* C29: under every interleaving of queryNeo4j, getNeo4jConnection and
\* closeGlobalConnection, a failing connectivity check included, the
\* singleton is never left set to a connection without a driver: a call
\* that follows a failed one connects anew and no call made on the
\* singleton fails with 'driver not connected'; and at no time does more
\* than one connection hold a driver.
C29_SingletonHasDriver ==
  tool = "queryNeo4j" =>
    /\ globalConnection # 0 => connDriver[globalConnection]
    /\ \A c \in Callers :
         (callers[c].error = "Neo4j driver not connected")
           => callers[c].conn # globalConnection
    /\ Cardinality({k \in DOMAIN connDriver : connDriver[k]}) <= 1

====
